---------------------------- MODULE Spec2Model ----------------------------
(***************************************************************************)
(* Model of the graph-search query language of obsidian-supergraph:        *)
(* parseQuery (a regular-expression tokenizer) and matchesQuery (the       *)
(* evaluator of parsed terms against a file's path, aliases and tags).     *)
(*                                                                         *)
(* A JavaScript string is modelled as a sequence of one-character strings. *)
(* Positions are 1-based: position p of the model is index p-1 of the      *)
(* JavaScript string.                                                      *)
(***************************************************************************)
EXTENDS Integers, Sequences, FiniteSets, TLC

VARIABLES
    query,      \* the query string handed to parseQuery
    query2,     \* a second query string: the operand of a concatenation, or the
                \* inputValue selectSuggestion read
    terms,      \* the SearchTerm[] last returned by parseQuery / handed to matchesQuery
    file,       \* the file handed to matchesQuery: [path, cache]
    matched,    \* the boolean last returned by matchesQuery
    pc,         \* the position in the call sequence of the specification at hand
    extractedAliases,   \* matchesQuery: aliases = extractAliases(cache)
    extractedTags,      \* matchesQuery: tags = extractTags(cache)
    lastIndex,  \* parseQuery: tokenRegex.lastIndex + 1
    matchIndex, \* parseQuery: match.index + 1 of the last match, 0 before the first
    cy,         \* SupergraphView.cy: the graph instance, or null
    layout,     \* SupergraphView.layout: the force layout last started, or null
    display,    \* SupergraphView.display
    forces,     \* SupergraphView.forces
    settings,   \* SupergraphPlugin.settings
    data,       \* the plugin data as stored (data.json)
    vault,      \* the paths of the markdown files of the vault
    tasks,      \* the asynchronous calls in flight, oldest first
    operated,   \* the sliders the user of this session operates
    debounced,  \* whether the plugin is the build that debounces its refreshes
    leaves,     \* the workspace leaves that hold an open Supergraph view
    refreshTimer,   \* whether the timer of refreshAllViewsDebounced is armed
    refreshCalls,   \* for each view, the refreshGraph calls made on it
    vaultEvents,    \* the vault events raised so far
    saveTimer,  \* whether the timer of saveGraphStateDebounced is armed
    running,    \* the number of force layouts that were run and not stopped
    suggestion  \* the item last handed to SearchSuggest.selectSuggestion

queryVars ==
    <<query, query2, terms, file, matched, pc, extractedAliases, extractedTags>>

loopVars == <<lastIndex, matchIndex>>

viewVars == <<cy, layout, display, forces>>

pluginVars == <<settings, data, vault, tasks, operated>>

eventVars == <<debounced, leaves, refreshTimer, refreshCalls, vaultEvents>>

uiVars == <<saveTimer, running, suggestion>>

vars == <<queryVars, loopVars, viewVars, pluginVars, eventVars, uiVars>>

---------------------------------------------------------------------------
(* Bounds of the model                                                     *)

MaxLexemes == 4     \* raw queries are concatenations of at most this many lexemes
MaxTokens == 2      \* well-formed queries have at most this many tokens
MaxTokens1 == 1     \* the operands of a concatenation have at most this many,
MaxTokens2 == 1     \* the first and the second

---------------------------------------------------------------------------
(* Strings                                                                 *)

Quote == "\""

UpperLetters == <<"A","B","C","D","E","F","G","H","I","J","K","L","M",
                  "N","O","P","Q","R","S","T","U","V","W","X","Y","Z">>
LowerLetters == <<"a","b","c","d","e","f","g","h","i","j","k","l","m",
                  "n","o","p","q","r","s","t","u","v","w","x","y","z">>

LowerChar(c) ==
    IF \E i \in 1..26 : UpperLetters[i] = c
    THEN LowerLetters[CHOOSE i \in 1..26 : UpperLetters[i] = c]
    ELSE c

UpperChar(c) ==
    IF \E i \in 1..26 : LowerLetters[i] = c
    THEN UpperLetters[CHOOSE i \in 1..26 : LowerLetters[i] = c]
    ELSE c

\* String.prototype.toLowerCase
toLowerCase(s) == [i \in 1..Len(s) |-> LowerChar(s[i])]

\* String.prototype.toUpperCase (used to build inputs only)
toUpperCase(s) == [i \in 1..Len(s) |-> UpperChar(s[i])]

\* String.prototype.includes
includes(s, v) ==
    \E i \in 0..(Len(s) - Len(v)) : SubSeq(s, i + 1, i + Len(v)) = v

\* the regular-expression class \s (space and tab of it)
IsSpace(c) == c \in {" ", "\t"}

\* q has the literal lit at position k
HasAt(q, k, lit) ==
    /\ k + Len(lit) - 1 <= Len(q)
    /\ SubSeq(q, k, k + Len(lit) - 1) = lit

---------------------------------------------------------------------------
(* tokenRegex: an optional minus (group 1), an optional tag: or path:      *)
(* (group 2), then a quoted value (group 3) or a run of non-whitespace     *)
(* (group 4); evaluated as a backtracking matcher does.                    *)

NoMatch ==
    [found |-> FALSE, m1 |-> FALSE, m2 |-> "undefined",
     m3def |-> FALSE, m3 |-> <<>>, m4def |-> FALSE, m4 |-> <<>>, end |-> 0]

\* the quoted alternative at k (quote, non-quotes, quote): the position of the closing quote, 0 when it fails
ClosingQuote(q, k) ==
    IF k <= Len(q) /\ q[k] = Quote /\ (\E j \in (k + 1)..Len(q) : q[j] = Quote)
    THEN CHOOSE j \in (k + 1)..Len(q) :
            q[j] = Quote /\ \A i \in (k + 1)..(j - 1) : q[i] # Quote
    ELSE 0

\* the bare alternative at k (one or more non-whitespace): the position after the greedy run, 0 when it fails
BareEndOrEmpty(q, k) ==
    IF k <= Len(q) /\ ~IsSpace(q[k])
    THEN CHOOSE e \in (k + 1)..(Len(q) + 1) :
            /\ \A i \in k..(e - 1) : ~IsSpace(q[i])
            /\ (e = Len(q) + 1 \/ IsSpace(q[e]))
    ELSE k

BareEnd(q, k) ==
    IF k <= Len(q) /\ ~IsSpace(q[k])
    THEN CHOOSE e \in (k + 1)..(Len(q) + 1) :
            /\ \A i \in k..(e - 1) : ~IsSpace(q[i])
            /\ (e = Len(q) + 1 \/ IsSpace(q[e]))
    ELSE 0

\* the value alternatives at k, quoted first, groups 1 and 2 being already decided
MatchValue(q, k, neg, prefix) ==
    LET closing == ClosingQuote(q, k)
        bareEnd == BareEnd(q, k)
    IN  IF closing # 0
        THEN [found |-> TRUE, m1 |-> neg, m2 |-> prefix,
              m3def |-> TRUE, m3 |-> SubSeq(q, k + 1, closing - 1),
              m4def |-> FALSE, m4 |-> <<>>, end |-> closing + 1]
        ELSE IF bareEnd # 0
        THEN [found |-> TRUE, m1 |-> neg, m2 |-> prefix,
              m3def |-> FALSE, m3 |-> <<>>,
              m4def |-> TRUE, m4 |-> SubSeq(q, k, bareEnd - 1),
              end |-> bareEnd]
        ELSE NoMatch

\* the optional prefix followed by the value, at k: the prefix is tried first,
\* and given up when the value does not match after it
MatchPrefix(q, k, neg) ==
    LET afterTag == MatchValue(q, k + 4, neg, "tag")
        afterPath == MatchValue(q, k + 5, neg, "path")
    IN  IF HasAt(q, k, <<"t","a","g",":">>) /\ afterTag.found THEN afterTag
        ELSE IF HasAt(q, k, <<"p","a","t","h",":">>) /\ afterPath.found
        THEN afterPath
        ELSE MatchValue(q, k, neg, "undefined")

\* the whole expression anchored at p: the optional minus is tried first, and given up
\* when the rest does not match after it
MatchAt(q, p) ==
    LET afterMinus == MatchPrefix(q, p + 1, TRUE)
    IN  IF p <= Len(q) /\ q[p] = "-" /\ afterMinus.found THEN afterMinus
        ELSE MatchPrefix(q, p, FALSE)

\* tokenRegex.exec(query) with tokenRegex.lastIndex = fromIndex - 1:
\* the match at the leftmost position at or after fromIndex
RECURSIVE RegexExec(_, _)
RegexExec(q, fromIndex) ==
    LET here == MatchAt(q, fromIndex)
    IN  IF fromIndex > Len(q) THEN NoMatch
        ELSE IF here.found THEN here
        ELSE RegexExec(q, fromIndex + 1)

\* match.index of that match: the leftmost position at or after fromIndex
\* where the expression matches, 0 when there is none
RECURSIVE MatchIndex(_, _)
MatchIndex(q, fromIndex) ==
    IF fromIndex > Len(q) THEN 0
    ELSE IF MatchAt(q, fromIndex).found THEN fromIndex
    ELSE MatchIndex(q, fromIndex + 1)

---------------------------------------------------------------------------
(* parseQuery                                                              *)

SearchTerm(type, value, negated) ==
    [type |-> type, value |-> value, negated |-> negated]

\* the value of one match before lowercasing: quotedValue when it is
\* defined, else unquotedValue, else the empty string
MatchRawValue(m) == IF m.m3def THEN m.m3 ELSE IF m.m4def THEN m.m4 ELSE <<>>

\* the body of the while loop: the terms one match pushes (none or one)
TermsOfMatchNoLower(m) ==
    LET value == MatchRawValue(m)
    IN  IF value = <<>> THEN <<>>
        ELSE IF m.m2 = "tag" THEN <<SearchTerm("tag", value, m.m1)>>
        ELSE IF m.m2 = "path" THEN <<SearchTerm("path", value, m.m1)>>
        ELSE <<SearchTerm("text", value, m.m1)>>

TermsOfMatchKeepEmpty(m) ==
    LET value == toLowerCase(MatchRawValue(m))
    IN  IF m.m2 = "tag" THEN <<SearchTerm("tag", value, m.m1)>>
        ELSE IF m.m2 = "path" THEN <<SearchTerm("path", value, m.m1)>>
        ELSE <<SearchTerm("text", value, m.m1)>>

TermsOfMatch(m) ==
    LET negated == m.m1
        prefix == m.m2
        value == toLowerCase(MatchRawValue(m))
    IN  IF value = <<>> /\ prefix = "undefined" THEN <<>>
        ELSE IF prefix = "tag"
             THEN IF value # <<>> THEN <<SearchTerm("tag", value, negated)>>
                  ELSE <<>>
        ELSE IF prefix = "path"
             THEN IF value # <<>> THEN <<SearchTerm("path", value, negated)>>
                  ELSE <<>>
        ELSE IF value # <<>> THEN <<SearchTerm("text", value, negated)>>
        ELSE <<>>

\* the while loop from fromIndex on, acc being the terms pushed so far
RECURSIVE ParseLoopDedup(_, _, _)
ParseLoopDedup(q, fromIndex, acc) ==
    LET match == RegexExec(q, fromIndex)
        new == TermsOfMatch(match)
    IN  IF ~match.found THEN acc
        ELSE IF new # <<>> /\ \E i \in 1..Len(acc) : acc[i] = new[1]
             THEN ParseLoopDedup(q, match.end, acc)
        ELSE ParseLoopDedup(q, match.end, acc \o new)

RECURSIVE ParseLoop(_, _, _)
ParseLoop(q, fromIndex, acc) ==
    LET match == RegexExec(q, fromIndex)
    IN  IF ~match.found THEN acc
        ELSE ParseLoop(q, match.end, acc \o TermsOfMatch(match))

parseQuery(q) == ParseLoop(q, 1, <<>>)


---------------------------------------------------------------------------
(* Files and their metadata cache                                          *)

\* a frontmatter value: absent, a string, an array (of strings and
\* non-strings) or a non-string scalar
FmUndefined == [kind |-> "undefined", str |-> <<>>, items |-> <<>>]
FmString(s) == [kind |-> "string", str |-> s, items |-> <<>>]
FmArray(a) == [kind |-> "array", str |-> <<>>, items |-> a]
FmNumber == [kind |-> "number", str |-> <<>>, items |-> <<>>]
StrItem(s) == [isString |-> TRUE, str |-> s]
NumItem == [isString |-> FALSE, str |-> <<>>]

\* app.metadataCache.getFileCache(file): null, or a CachedMetadata with
\* optional inline tags and optional frontmatter
NullCache ==
    [isNull |-> TRUE, hasTags |-> FALSE, tags |-> <<>>, hasFrontmatter |-> FALSE,
     fmTags |-> FmUndefined, fmAliases |-> FmUndefined]
Cache(hasTags, tags, hasFm, fmTags, fmAliases) ==
    [isNull |-> FALSE, hasTags |-> hasTags, tags |-> tags, hasFrontmatter |-> hasFm,
     fmTags |-> fmTags, fmAliases |-> fmAliases]

\* a value is truthy unless it is undefined or the empty string
Truthy(v) == v.kind # "undefined" /\ ~(v.kind = "string" /\ v.str = <<>>)

\* String.prototype.slice(1)
Slice1(s) == IF Len(s) <= 1 THEN <<>> ELSE SubSeq(s, 2, Len(s))

\* String.prototype.replace(/^#/, "")
StripHash(s) == IF Len(s) >= 1 /\ s[1] = "#" THEN Slice1(s) ELSE s

RECURSIVE SeqMapInline(_)
SeqMapInline(ts) ==
    IF ts = <<>> THEN <<>>
    ELSE <<toLowerCase(Slice1(Head(ts)))>> \o SeqMapInline(Tail(ts))

RECURSIVE FmTagItemsKeepNonStrings(_)
FmTagItemsKeepNonStrings(items) ==
    IF items = <<>> THEN <<>>
    ELSE <<toLowerCase(StripHash(Head(items).str))>>
         \o FmTagItemsKeepNonStrings(Tail(items))

RECURSIVE FmTagItems(_)
FmTagItems(items) ==
    IF items = <<>> THEN <<>>
    ELSE (IF Head(items).isString
          THEN <<toLowerCase(StripHash(Head(items).str))>> ELSE <<>>)
         \o FmTagItems(Tail(items))

RECURSIVE FmAliasItems(_)
FmAliasItems(items) ==
    IF items = <<>> THEN <<>>
    ELSE (IF Head(items).isString
          THEN <<toLowerCase(Head(items).str)>> ELSE <<>>)
         \o FmAliasItems(Tail(items))

extractTags(cache) ==
    LET inline == IF ~cache.isNull /\ cache.hasTags
                  THEN SeqMapInline(cache.tags) ELSE <<>>
        fmTags == IF ~cache.isNull /\ cache.hasFrontmatter
                  THEN cache.fmTags ELSE FmUndefined
        fm == IF ~Truthy(fmTags) THEN <<>>
              ELSE IF fmTags.kind = "array" THEN FmTagItems(fmTags.items)
              ELSE IF fmTags.kind = "string"
                   THEN <<toLowerCase(StripHash(fmTags.str))>>
              ELSE <<>>
    IN  inline \o fm

extractAliases(cache) ==
    LET fmAliases == IF ~cache.isNull /\ cache.hasFrontmatter
                     THEN cache.fmAliases ELSE FmUndefined
    IN  IF ~Truthy(fmAliases) THEN <<>>
        ELSE IF fmAliases.kind = "array" THEN FmAliasItems(fmAliases.items)
        ELSE IF fmAliases.kind = "string" THEN <<toLowerCase(fmAliases.str)>>
        ELSE <<>>

---------------------------------------------------------------------------
(* termMatches and matchesQuery                                            *)

termMatchesTextTags(term, filePath, aliases, tags) ==
    LET value == term.value
    IN  CASE term.type = "tag" ->
                \E i \in 1..Len(tags) : includes(tags[i], value)
          [] term.type = "path" -> includes(filePath, value)
          [] term.type = "text" ->
                \/ includes(filePath, value)
                \/ \E i \in 1..Len(aliases) : includes(aliases[i], value)
                \/ \E i \in 1..Len(tags) : includes(tags[i], value)
          [] OTHER -> FALSE

termMatches(term, filePath, aliases, tags) ==
    LET value == term.value
    IN  CASE term.type = "tag" ->
                \E i \in 1..Len(tags) : includes(tags[i], value)
          [] term.type = "path" -> includes(filePath, value)
          [] term.type = "text" ->
                IF includes(filePath, value) THEN TRUE
                ELSE IF \E i \in 1..Len(aliases) : includes(aliases[i], value)
                     THEN TRUE
                ELSE FALSE
          [] OTHER -> FALSE

\* the for loop of matchesQuery over the terms from index i on
RECURSIVE MatchLoopIgnoreNegated(_, _, _, _, _)
MatchLoopIgnoreNegated(ts, i, filePath, aliases, tags) ==
    IF i > Len(ts) THEN TRUE
    ELSE LET matches == termMatches(ts[i], filePath, aliases, tags)
         IN  IF ts[i].negated
             THEN MatchLoopIgnoreNegated(ts, i + 1, filePath, aliases, tags)
             ELSE IF ~matches THEN FALSE
                  ELSE MatchLoopIgnoreNegated(ts, i + 1, filePath, aliases, tags)

RECURSIVE MatchLoopFirstDecides(_, _, _, _, _)
MatchLoopFirstDecides(ts, i, filePath, aliases, tags) ==
    IF i > Len(ts) THEN TRUE
    ELSE LET matches == termMatches(ts[i], filePath, aliases, tags)
         IN  IF ts[i].negated
             THEN IF matches THEN FALSE
                  ELSE MatchLoopFirstDecides(ts, i + 1, filePath, aliases, tags)
             ELSE matches

RECURSIVE MatchLoop(_, _, _, _, _)
MatchLoop(ts, i, filePath, aliases, tags) ==
    IF i > Len(ts) THEN TRUE
    ELSE LET matches == termMatches(ts[i], filePath, aliases, tags)
         IN  IF ts[i].negated
             THEN IF matches THEN FALSE
                  ELSE MatchLoop(ts, i + 1, filePath, aliases, tags)
             ELSE IF ~matches THEN FALSE
                  ELSE MatchLoop(ts, i + 1, filePath, aliases, tags)

matchesQueryEmptyFalse(f, ts) ==
    IF Len(ts) = 0 THEN FALSE
    ELSE MatchLoop(ts, 1, toLowerCase(f.path),
                   extractAliases(f.cache), extractTags(f.cache))

matchesQueryRawPath(f, ts) ==
    IF Len(ts) = 0 THEN TRUE
    ELSE MatchLoop(ts, 1, f.path, extractAliases(f.cache), extractTags(f.cache))

matchesQuery(f, ts) ==
    IF Len(ts) = 0 THEN TRUE
    ELSE LET cache == f.cache
             filePath == toLowerCase(f.path)
             aliases == extractAliases(cache)
             tags == extractTags(cache)
         IN  MatchLoop(ts, 1, filePath, aliases, tags)

---------------------------------------------------------------------------
(* Inputs                                                                  *)

\* the pieces raw query strings are built of
Lexemes ==
    { <<"-">>, <<"t","a","g",":">>, <<Quote>>, <<" ">>, <<"a">>, <<"B">> }

RECURSIVE LexemeStrings(_)
LexemeStrings(n) ==
    IF n = 0 THEN { <<>> }
    ELSE LexemeStrings(n - 1)
         \cup { s \o l : s \in LexemeStrings(n - 1), l \in Lexemes }

\* one token of the grammar: [-] [tag: | path:] (quoted v | bare v)
PrefixText(prefix) ==
    CASE prefix = "tag" -> <<"t","a","g",":">>
      [] prefix = "path" -> <<"p","a","t","h",":">>
      [] OTHER -> <<>>

Token(neg, prefix, quoted, v) ==
    (IF neg THEN <<"-">> ELSE <<>>) \o PrefixText(prefix)
    \o (IF quoted THEN <<Quote>> \o v \o <<Quote>> ELSE v)

BareValues == { <<"a">>, <<"B">> }
QuotedValues == { <<"a"," ","B">> }
Prefixes == { "undefined", "tag", "path" }

\* the well-formed tokens of the model, as records and as text
TokenSpecs ==
    [neg : BOOLEAN, prefix : Prefixes, quoted : {FALSE}, v : BareValues]
    \cup [neg : BOOLEAN, prefix : Prefixes, quoted : {TRUE}, v : QuotedValues]

TokenText(t) == Token(t.neg, t.prefix, t.quoted, t.v)

\* token sequences of at most n tokens
RECURSIVE TokenSeqs(_)
TokenSeqs(n) ==
    IF n = 0 THEN { <<>> }
    ELSE TokenSeqs(n - 1)
         \cup { Append(ts, t) : ts \in TokenSeqs(n - 1), t \in TokenSpecs }

\* the tokens joined by single spaces
RECURSIVE JoinTokens(_)
JoinTokens(ts) ==
    IF ts = <<>> THEN <<>>
    ELSE IF Len(ts) = 1 THEN TokenText(ts[1])
    ELSE TokenText(ts[1]) \o <<" ">> \o JoinTokens(Tail(ts))

WellFormedQueries(n) == { JoinTokens(ts) : ts \in TokenSeqs(n) }

\* the tokens whose value is an empty quoted string
EmptyValueTokens ==
    { Token(neg, prefix, TRUE, <<>>) : neg \in BOOLEAN, prefix \in Prefixes }

\* the tokens that are a prefix with nothing after the colon
EmptyPrefixTokens ==
    { Token(neg, prefix, FALSE, <<>>) : neg \in BOOLEAN, prefix \in {"tag", "path"} }

\* the example of the documentation of parseQuery
DocExample ==
    <<"f","o","o"," ","t","a","g",":",Quote,"m","y"," ","p","r","o","j","e","c","t",Quote," ","-","p","a","t","h",":",Quote,"a","r","c","h","i","v","e",Quote>>

\* the example of the substring semantics of tag terms
TagProExample == <<"t","a","g",":","p","r","o">>

\* queries of three tokens in which a term stands with its negation
ConflictExamples ==
    { JoinTokens(<< [neg |-> FALSE, prefix |-> "undefined", quoted |-> FALSE, v |-> <<"B">>],
                    [neg |-> FALSE, prefix |-> "undefined", quoted |-> FALSE, v |-> <<"a">>],
                    [neg |-> TRUE, prefix |-> "undefined", quoted |-> FALSE, v |-> <<"a">>] >>),
      JoinTokens(<< [neg |-> TRUE, prefix |-> "tag", quoted |-> FALSE, v |-> <<"a">>],
                    [neg |-> FALSE, prefix |-> "path", quoted |-> FALSE, v |-> <<"B">>],
                    [neg |-> FALSE, prefix |-> "tag", quoted |-> FALSE, v |-> <<"a">>] >>) }

Queries ==
    LexemeStrings(MaxLexemes) \cup WellFormedQueries(MaxTokens)
    \cup EmptyValueTokens \cup EmptyPrefixTokens
    \cup { DocExample, TagProExample } \cup ConflictExamples

Paths == { <<"A","b">>, <<"x","/","a">>, <<"b","B">> }

Caches ==
    { NullCache,
      Cache(FALSE, <<>>, FALSE, FmUndefined, FmUndefined),
      Cache(TRUE, << <<"#","A">> >>, FALSE, FmUndefined, FmUndefined),
      Cache(FALSE, <<>>, TRUE, FmString(<<"#","B">>), FmUndefined),
      Cache(FALSE, <<>>, TRUE,
            FmArray(<<StrItem(<<"a","B">>), NumItem, StrItem(<<"#","A">>)>>),
            FmString(<<"B">>)),
      Cache(FALSE, <<>>, TRUE,
            FmUndefined, FmArray(<<StrItem(<<"x","A">>), NumItem>>)),
      Cache(TRUE, <<>>, TRUE, FmNumber, FmString(<<>>)) }

\* the files of the example of the substring semantics of tag terms
TagExampleFiles ==
    { [path |-> <<"x","/","a">>,
       cache |-> Cache(TRUE, << <<"#","p","r","o","j","e","c","t">> >>, FALSE, FmUndefined, FmUndefined)],
      [path |-> <<"x","/","a">>,
       cache |-> Cache(TRUE, << <<"#","x","y","z">> >>, FALSE, FmUndefined, FmUndefined)] }

Files == [path : Paths, cache : Caches] \cup TagExampleFiles

NoFile == [path |-> <<>>, cache |-> NullCache]

---------------------------------------------------------------------------
(* SupergraphView: settings records and physics constants                  *)
(* centerForce and linkForce are counted in hundredths, linkThickness in   *)
(* tenths, the multipliers of 0.3 in hundredths, so that the strengths     *)
(* handed to the engine are counted in ten-thousandths.                    *)

REPEL_MULTIPLIER == 60
CENTER_MULTIPLIER == 30
LINK_STRENGTH_MULTIPLIER == 30
COLLIDE_RADIUS_MULTIPLIER == 2
MIN_LINK_DISTANCE == 30
INITIAL_SPREAD == 40
DEFAULT_WIDTH == 800
DEFAULT_HEIGHT == 600

DEFAULT_DISPLAY ==
    [nodeSize |-> 15, linkThickness |-> 30, showArrows |-> TRUE,
     showOrphans |-> TRUE, cardWidth |-> 200, cardHeight |-> 120,
     snippetLength |-> 150]

DEFAULT_FORCES ==
    [centerForce |-> 30, repelForce |-> 30, linkForce |-> 30, linkDistance |-> 100]

DisplayFields == DOMAIN DEFAULT_DISPLAY
ForceFields == DOMAIN DEFAULT_FORCES

NullLayout == [isNull |-> TRUE, running |-> FALSE, options |-> <<>>]

\* Math.max
Max(a, b) == IF a >= b THEN a ELSE b

\* the options startForceLayout hands to cy.layout; the collision radius
\* sqrt(cardWidth ** 2 + cardHeight ** 2) / 2 is kept as the square of its
\* double, which is an integer
LayoutOptionsNodeSize(d, f) ==
    [manyBodyStrength |-> -f.repelForce * REPEL_MULTIPLIER,
     linkDistance |-> Max(f.linkDistance, MIN_LINK_DISTANCE),
     linkStrength |-> f.linkForce * LINK_STRENGTH_MULTIPLIER,
     xStrength |-> f.centerForce * CENTER_MULTIPLIER,
     yStrength |-> f.centerForce * CENTER_MULTIPLIER,
     collideDiameterSquared |->
        (2 * d.nodeSize * COLLIDE_RADIUS_MULTIPLIER)
        * (2 * d.nodeSize * COLLIDE_RADIUS_MULTIPLIER)]

LayoutOptionsNoFloor(d, f) ==
    [manyBodyStrength |-> -f.repelForce * REPEL_MULTIPLIER,
     linkDistance |-> f.linkDistance,
     linkStrength |-> f.linkForce * LINK_STRENGTH_MULTIPLIER,
     xStrength |-> f.centerForce * CENTER_MULTIPLIER,
     yStrength |-> f.centerForce * CENTER_MULTIPLIER,
     collideDiameterSquared |->
        d.cardWidth * d.cardWidth + d.cardHeight * d.cardHeight]

LayoutOptionsAttract(d, f) ==
    [manyBodyStrength |-> f.repelForce * REPEL_MULTIPLIER,
     linkDistance |-> Max(f.linkDistance, MIN_LINK_DISTANCE),
     linkStrength |-> f.linkForce * LINK_STRENGTH_MULTIPLIER,
     xStrength |-> f.centerForce * CENTER_MULTIPLIER,
     yStrength |-> f.centerForce * CENTER_MULTIPLIER,
     collideDiameterSquared |->
        d.cardWidth * d.cardWidth + d.cardHeight * d.cardHeight]

LayoutOptions(d, f) ==
    [manyBodyStrength |-> -f.repelForce * REPEL_MULTIPLIER,
     linkDistance |-> Max(f.linkDistance, MIN_LINK_DISTANCE),
     linkStrength |-> f.linkForce * LINK_STRENGTH_MULTIPLIER,
     xStrength |-> f.centerForce * CENTER_MULTIPLIER,
     yStrength |-> f.centerForce * CENTER_MULTIPLIER,
     collideDiameterSquared |->
        d.cardWidth * d.cardWidth + d.cardHeight * d.cardHeight]

\* startForceLayout: the value of this.layout after the call (the layout
\* before it, if any, is stopped and dropped)
StartForceLayout(c, l, d, f) ==
    IF c.isNull THEN l
    ELSE [isNull |-> FALSE, running |-> TRUE, options |-> LayoutOptions(d, f)]

\* layout.stop(), when the view holds a layout: the layouts running after it
RunningAfterStop(l, n) == IF ~l.isNull /\ l.running THEN n - 1 ELSE n

\* a startForceLayout that runs the new layout beside the one it replaces
RunningAfterStartBeside(c, l, n) == IF c.isNull THEN n ELSE n + 1

\* startForceLayout: the layouts running after it
RunningAfterStart(c, l, n) ==
    IF c.isNull THEN n ELSE RunningAfterStop(l, n) + 1

\* a position of the graph's coordinate system
Pos(x, y) == [x |-> x, y |-> y]

NoNodes == [n \in {} |-> Pos(0, 0)]

\* the graph instance: its nodes with their positions, and its edges
NullCy == [isNull |-> TRUE, nodes |-> NoNodes, edges |-> {}]
OpenCy == [isNull |-> FALSE, nodes |-> NoNodes, edges |-> {}]

---------------------------------------------------------------------------
(* The plugin data and the plugin settings                                 *)

\* the fields of SupergraphSettings the view reads
DEFAULT_SETTINGS == [showAllFiles |-> TRUE, showLinks |-> TRUE, fileFilter |-> <<>>]

\* a settings record as stored: the fields that are present and their values
SavedRecord(present, fields) == [present |-> present, fields |-> fields]

\* JSON.stringify of a complete settings record
Stored(rec) == SavedRecord(DOMAIN rec, rec)

ViewSettings(d, f) == [display |-> d, forces |-> f]

NoViewSettings == ViewSettings(SavedRecord({}, DEFAULT_DISPLAY), SavedRecord({}, DEFAULT_FORCES))

GraphState(nodes, edges) == [nodes |-> nodes, edges |-> edges]

NoGraphState == GraphState(NoNodes, {})

\* the data object: each entry with a flag telling whether it is present
NoData ==
    [hasSettings |-> FALSE, settings |-> DEFAULT_SETTINGS,
     hasGraphState |-> FALSE, graphState |-> NoGraphState,
     hasViewSettings |-> FALSE, viewSettings |-> NoViewSettings]

\* { ...defaults, ...saved }
MergeDefaultsLast(defaults, saved) == defaults

Merge(defaults, saved) ==
    [f \in DOMAIN defaults |->
        IF f \in saved.present THEN saved.fields[f] ELSE defaults[f]]

\* loadViewSettings: the display and forces of the view after the call
LoadedDisplay(dt, d) ==
    IF dt.hasViewSettings THEN Merge(DEFAULT_DISPLAY, dt.viewSettings.display) ELSE d

LoadedForces(dt, f) ==
    IF dt.hasViewSettings THEN Merge(DEFAULT_FORCES, dt.viewSettings.forces) ELSE f

\* saveViewSettings, after loadData: the object handed to saveData
ViewSettingsPayload(read, vs) ==
    [read EXCEPT !.hasViewSettings = TRUE, !.viewSettings = vs]

\* saveGraphState: the object handed to saveData
GraphStatePayload(c) ==
    [NoData EXCEPT !.hasGraphState = TRUE,
                   !.graphState = GraphState(c.nodes, c.edges)]

\* loadGraphState: data?.graphState || null
LoadedGraphState(dt) ==
    IF dt.hasGraphState
    THEN [NoData EXCEPT !.hasGraphState = TRUE, !.graphState = dt.graphState]
    ELSE NoData

\* the settings object of the plugin: the fields of SupergraphSettings, and
\* the other entries of the object loadData returned when the plugin loaded
SettingsObject(fields, dt) ==
    [showAllFiles |-> fields.showAllFiles, showLinks |-> fields.showLinks,
     fileFilter |-> fields.fileFilter,
     hasGraphState |-> dt.hasGraphState, graphState |-> dt.graphState,
     hasViewSettings |-> dt.hasViewSettings, viewSettings |-> dt.viewSettings]

\* loadSettings: Object.assign({}, DEFAULT_SETTINGS, data)
LoadedSettings(dt) ==
    SettingsObject(IF dt.hasSettings THEN dt.settings ELSE DEFAULT_SETTINGS, dt)

\* saveSettings: the object handed to saveData
SettingsPayload(st) ==
    [hasSettings |-> TRUE,
     settings |-> [showAllFiles |-> st.showAllFiles, showLinks |-> st.showLinks,
                   fileFilter |-> st.fileFilter],
     hasGraphState |-> st.hasGraphState, graphState |-> st.graphState,
     hasViewSettings |-> st.hasViewSettings, viewSettings |-> st.viewSettings]

\* String.prototype.trim
RECURSIVE TrimStart(_)
TrimStart(str) ==
    IF str # <<>> /\ IsSpace(Head(str)) THEN TrimStart(Tail(str)) ELSE str

RECURSIVE TrimEnd(_)
TrimEnd(str) ==
    IF str # <<>> /\ IsSpace(str[Len(str)])
    THEN TrimEnd(SubSeq(str, 1, Len(str) - 1))
    ELSE str

trim(str) == TrimEnd(TrimStart(str))

\* the filter compared as typed, surrounding whitespace included
shouldIncludeFileNoTrim(path, st) ==
    IF ~st.showAllFiles THEN FALSE
    ELSE LET filter == st.fileFilter IN
         IF filter # <<>> /\ ~includes(toLowerCase(path), toLowerCase(filter))
         THEN FALSE
         ELSE TRUE

shouldIncludeFile(path, st) ==
    IF ~st.showAllFiles THEN FALSE
    ELSE LET filter == trim(st.fileFilter) IN
         IF filter # <<>> /\ ~includes(toLowerCase(path), toLowerCase(filter))
         THEN FALSE
         ELSE TRUE

---------------------------------------------------------------------------
(* Asynchronous calls: each is a record that remembers how far it got      *)

Task(kind, phase) ==
    [kind |-> kind, phase |-> phase, detached |-> FALSE, own |-> NoViewSettings,
     read |-> NoData, payload |-> NoData,
     files |-> {}, nodes |-> {}, edges |-> {}]

RemoveAt(seq, i) == SubSeq(seq, 1, i - 1) \o SubSeq(seq, i + 1, Len(seq))

\* saveViewSettings is called: it awaits loadData
SaveViewSettingsCall == Task("saveViewSettings", "loadData")

\* loadGraphData is called: the files are listed and filtered, the nodes are
\* awaited
LoadGraphDataCall(st, vlt) ==
    [Task("loadGraphData", "createNodes") EXCEPT
        !.files = vlt,
        !.nodes = { f \in vlt : shouldIncludeFile(f, st) }]

Views == { 1, 2 }

\* no suggestion was selected
NoSuggestion == [type |-> "none", value |-> <<>>, display |-> <<>>]

\* no vault event was raised, no timer is armed, no layout runs
EventsIdle ==
    /\ saveTimer = FALSE
    /\ running = 0
    /\ suggestion = NoSuggestion
    /\ debounced = FALSE
    /\ leaves = {}
    /\ refreshTimer = FALSE
    /\ refreshCalls = [v \in Views |-> 0]
    /\ vaultEvents = 0

\* no view is open and nothing is stored
ViewIdle ==
    /\ cy = NullCy
    /\ layout = NullLayout
    /\ display = DEFAULT_DISPLAY
    /\ forces = DEFAULT_FORCES
    /\ settings = LoadedSettings(NoData)
    /\ data = NoData
    /\ vault = {}
    /\ tasks = <<>>
    /\ operated = {}
    /\ EventsIdle

---------------------------------------------------------------------------
(* The state machine: a query is parsed, then evaluated against a file     *)

\* the tokenizing loop is not under way
LoopIdle ==
    /\ lastIndex = 1
    /\ matchIndex = 0

Init ==
    /\ query \in Queries
    /\ query2 = <<>>
    /\ terms = <<>>
    /\ file = NoFile
    /\ matched = FALSE
    /\ extractedAliases = <<>>
    /\ extractedTags = <<>>
    /\ pc = "start"
    /\ LoopIdle
    /\ ViewIdle

\* terms = parseQuery(query)
ParseQuery ==
    /\ pc = "start"
    /\ terms' = parseQuery(query)
    /\ pc' = "parsed"
    /\ UNCHANGED <<query, query2, file, matched, extractedAliases, extractedTags, loopVars, viewVars, pluginVars, eventVars, uiVars>>

\* matched = matchesQuery(file, terms, app)
MatchesQuery ==
    /\ pc = "parsed"
    /\ \E f \in Files :
          /\ file' = f
          /\ matched' = matchesQuery(f, terms)
          /\ IF Len(terms) = 0
             THEN UNCHANGED <<extractedAliases, extractedTags, eventVars, uiVars>>
             ELSE /\ extractedAliases' = extractAliases(f.cache)
                  /\ extractedTags' = extractTags(f.cache)
    /\ pc' = "matched"
    /\ UNCHANGED <<query, query2, terms, loopVars, viewVars, pluginVars, eventVars, uiVars>>

Next == ParseQuery \/ MatchesQuery

Spec == Init /\ [][Next]_vars


\* terms = parseQuery(query + " " + query2)
InitConcat ==
    /\ query \in WellFormedQueries(MaxTokens1)
    /\ query2 \in WellFormedQueries(MaxTokens2)
    /\ terms = <<>>
    /\ file = NoFile
    /\ matched = FALSE
    /\ extractedAliases = <<>>
    /\ extractedTags = <<>>
    /\ pc = "start"
    /\ LoopIdle
    /\ ViewIdle

ParseConcat ==
    /\ pc = "start"
    /\ terms' = parseQuery(query \o <<" ">> \o query2)
    /\ pc' = "parsedConcat"
    /\ UNCHANGED <<query, query2, file, matched, extractedAliases, extractedTags, loopVars, viewVars, pluginVars, eventVars, uiVars>>

NextConcat == ParseConcat

SpecConcat == InitConcat /\ [][NextConcat]_vars

---------------------------------------------------------------------------
(* The tokenizing loop of parseQuery, one iteration at a time              *)

InitLoop ==
    /\ query \in Queries
    /\ query2 = <<>>
    /\ terms = <<>>
    /\ file = NoFile
    /\ matched = FALSE
    /\ extractedAliases = <<>>
    /\ extractedTags = <<>>
    /\ pc = "loop"
    /\ LoopIdle
    /\ ViewIdle

\* one iteration: exec finds a match, the body pushes its term (if any)
LoopIteration ==
    /\ pc = "loop"
    /\ LET match == RegexExec(query, lastIndex)
       IN  /\ match.found
           /\ terms' = terms \o TermsOfMatch(match)
           /\ lastIndex' = match.end
           /\ matchIndex' = MatchIndex(query, lastIndex)
    /\ UNCHANGED <<query, query2, file, matched, extractedAliases, extractedTags,
                   pc, viewVars, pluginVars, eventVars, uiVars>>

\* exec returns null (and resets lastIndex): the loop ends, terms is returned
LoopExit ==
    /\ pc = "loop"
    /\ ~RegexExec(query, lastIndex).found
    /\ lastIndex' = 1
    /\ pc' = "returned"
    /\ UNCHANGED <<query, query2, terms, file, matched, extractedAliases,
                   extractedTags, matchIndex, viewVars, pluginVars, eventVars, uiVars>>

NextLoop == LoopIteration \/ LoopExit

SpecLoop == InitLoop /\ [][NextLoop]_vars

---------------------------------------------------------------------------
(* The force layout of an open view whose settings were loaded from the    *)
(* plugin data (which may hold values outside the range of the sliders)    *)

QueryIdle ==
    /\ query = <<>>
    /\ query2 = <<>>
    /\ terms = <<>>
    /\ file = NoFile
    /\ matched = FALSE
    /\ extractedAliases = <<>>
    /\ extractedTags = <<>>
    /\ LoopIdle

LinkDistances == { -10, 0, 29, 30, 100, 300 }
RepelForces == { -1, 0, 30, 50 }
CardWidths == { 100, 200 }
CardHeights == { 60, 120 }
NodeSizes == { 10, 15 }

InitLayout ==
    /\ QueryIdle
    /\ pc = "view"
    /\ cy = OpenCy
    /\ layout = NullLayout
    /\ settings = LoadedSettings(NoData)
    /\ data = NoData
    /\ vault = {}
    /\ tasks = <<>>
    /\ operated = {}
    /\ EventsIdle
    /\ \E w \in CardWidths, h \in CardHeights, n \in NodeSizes :
          display = [DEFAULT_DISPLAY EXCEPT !.cardWidth = w, !.cardHeight = h,
                                            !.nodeSize = n]
    /\ \E ld \in LinkDistances, r \in RepelForces :
          forces = [DEFAULT_FORCES EXCEPT !.linkDistance = ld, !.repelForce = r]

\* the Animate button: runLayout
RunLayout ==
    /\ pc = "view"
    /\ layout' = StartForceLayout(cy, layout, display, forces)
    /\ running' = RunningAfterStart(cy, layout, running)
    /\ UNCHANGED <<queryVars, loopVars, cy, display, forces, pluginVars, eventVars, saveTimer, suggestion>>

\* a node is grabbed: restartLayout
GrabNode ==
    /\ pc = "view"
    /\ ~cy.isNull
    /\ DOMAIN cy.nodes # {}
    /\ layout' = StartForceLayout(cy, layout, display, forces)
    /\ running' = RunningAfterStart(cy, layout, running)
    /\ UNCHANGED <<queryVars, loopVars, cy, display, forces, pluginVars, eventVars, saveTimer, suggestion>>

\* the layout engine cools down and stops by itself
LayoutStops ==
    /\ pc = "view"
    /\ ~layout.isNull /\ layout.running
    /\ layout' = [layout EXCEPT !.running = FALSE]
    /\ running' = RunningAfterStop(layout, running)
    /\ UNCHANGED <<queryVars, loopVars, cy, display, forces, pluginVars, eventVars, saveTimer, suggestion>>

NextLayout == RunLayout \/ LayoutStops

SpecLayout == InitLayout /\ [][NextLayout]_vars

---------------------------------------------------------------------------
(* The view: opened, operated through its settings panel, closed, while    *)
(* its asynchronous calls proceed in any order                             *)

\* a handler that makes asynchronous calls runs only while fewer than
\* MaxPending earlier calls are in flight
MaxPending == 1

VaultFiles == { <<"A","b">>, <<"b","B">> }

VaultLinks == { [source |-> <<"A","b">>, target |-> <<"b","B">>] }

Edge(source, target, isManual) ==
    [source |-> source, target |-> target, isManual |-> isManual]

\* the sliders of buildSettingsPanel: the record and the field each writes,
\* whether its onChange reloads the graph or restarts the layout, and the
\* values the slider is moved to
Slider(of, field, reload, restart, values) ==
    [of |-> of, field |-> field, reload |-> reload, restart |-> restart,
     values |-> values]

Sliders ==
    { Slider("display", "cardWidth", TRUE, FALSE, {100}),
      Slider("display", "cardHeight", TRUE, FALSE, {60}),
      Slider("display", "snippetLength", TRUE, FALSE, {50}),
      Slider("display", "linkThickness", FALSE, FALSE, {1}),
      Slider("forces", "centerForce", FALSE, TRUE, {0}),
      Slider("forces", "repelForce", FALSE, TRUE, {0}),
      Slider("forces", "linkForce", FALSE, TRUE, {200}),
      Slider("forces", "linkDistance", FALSE, TRUE, {300}) }

DefaultOf(sl) ==
    IF sl.of = "display" THEN DEFAULT_DISPLAY[sl.field] ELSE DEFAULT_FORCES[sl.field]

\* a reset button that restores the whole record
OnChangeWholeRecord(rec, of, defaults, sl, val) ==
    IF sl.of = of THEN [defaults EXCEPT ![sl.field] = val] ELSE rec

\* the onChange callback of a slider: the record named of after the call
OnChange(rec, of, defaults, sl, val) ==
    IF sl.of = of THEN [rec EXCEPT ![sl.field] = val] ELSE rec

\* the handlers of createSlider: onChange(val), then saveViewSettings()
SliderChange(sl, val) ==
    LET d == OnChange(display, "display", DEFAULT_DISPLAY, sl, val)
        f == OnChange(forces, "forces", DEFAULT_FORCES, sl, val)
        calls == (IF sl.reload THEN <<LoadGraphDataCall(settings, vault)>> ELSE <<>>)
                 \o <<SaveViewSettingsCall>>
    IN  /\ pc = "view"
        /\ ~cy.isNull
        /\ Len(tasks) < MaxPending
        /\ display' = d
        /\ forces' = f
        /\ layout' = IF sl.restart THEN StartForceLayout(cy, layout, d, f) ELSE layout
        /\ running' = IF sl.restart THEN RunningAfterStart(cy, layout, running) ELSE running
        /\ tasks' = tasks \o calls
        /\ UNCHANGED <<queryVars, loopVars, cy, settings, data, vault, operated, eventVars, saveTimer, suggestion>>

SliderInput == \E sl \in operated : \E val \in sl.values : SliderChange(sl, val)

ResetOf(sl) == SliderChange(sl, DefaultOf(sl))

SliderReset == \E sl \in operated : ResetOf(sl)

ResetSettings ==
    /\ pc = "view"
    /\ ~cy.isNull
    /\ Len(tasks) < MaxPending
    /\ display' = DEFAULT_DISPLAY
    /\ forces' = DEFAULT_FORCES
    /\ layout' = StartForceLayout(cy, layout, DEFAULT_DISPLAY, DEFAULT_FORCES)
    /\ running' = RunningAfterStart(cy, layout, running)
    /\ tasks' = Append(tasks, SaveViewSettingsCall)
    /\ UNCHANGED <<queryVars, loopVars, cy, settings, data, vault, operated, eventVars, saveTimer, suggestion>>

SearchTexts == { <<>>, <<"a">> }

\* the search box of the panel
SearchInput ==
    \E text \in SearchTexts :
        /\ pc = "view"
        /\ ~cy.isNull
        /\ Len(tasks) < MaxPending
        /\ settings' = [settings EXCEPT !.fileFilter = text]
        /\ tasks' = Append(tasks, LoadGraphDataCall(settings', vault))
        /\ UNCHANGED <<queryVars, loopVars, viewVars, data, vault, operated, eventVars, uiVars>>

\* a view is opened: loadViewSettings, the panel, initializeGraph, and the
\* call of loadGraphData
OnOpen ==
    /\ pc = "view"
    /\ cy.isNull
    /\ Len(tasks) < MaxPending
    /\ display' = LoadedDisplay(data, DEFAULT_DISPLAY)
    /\ forces' = LoadedForces(data, DEFAULT_FORCES)
    /\ cy' = OpenCy
    /\ layout' = NullLayout
    /\ tasks' = Append(tasks, LoadGraphDataCall(settings, vault))
    /\ UNCHANGED <<queryVars, loopVars, settings, data, vault, operated, eventVars, uiVars>>

Closing == \E i \in 1..Len(tasks) : tasks[i].kind = "onClose"

\* the view is closed: onClose calls saveGraphState and awaits saveData
OnClose ==
    /\ pc = "view"
    /\ ~cy.isNull
    /\ ~Closing
    /\ Len(tasks) < MaxPending
    /\ tasks' = Append(tasks, [Task("onClose", "saveData") EXCEPT
                                  !.payload = GraphStatePayload(cy)])
    /\ UNCHANGED <<queryVars, loopVars, viewVars, settings, data, vault, operated, eventVars, uiVars>>

\* the calls of a view that is gone keep the view's last settings and find
\* its graph instance null
Detach(t) ==
    [t EXCEPT !.detached = TRUE,
              !.own = IF t.detached THEN t.own
                      ELSE ViewSettings(Stored(display), Stored(forces))]

\* saveData of onClose completes: the layout is stopped, the graph destroyed;
\* the save timer of this view, if armed, will find the graph null
OnCloseResume(i) ==
    /\ pc = "view"
    /\ tasks[i].kind = "onClose"
    /\ data' = tasks[i].payload
    /\ layout' = NullLayout
    /\ running' = RunningAfterStop(layout, running)
    /\ cy' = NullCy
    /\ saveTimer' = FALSE
    /\ tasks' = LET rest == RemoveAt(tasks, i)
                IN  [j \in 1..Len(rest) |-> Detach(rest[j])]
    /\ UNCHANGED <<queryVars, loopVars, display, forces, settings, vault, operated, eventVars, suggestion>>

\* saveViewSettings: loadData reads the stored data
SaveViewSettingsRead(i) ==
    /\ pc = "view"
    /\ tasks[i].kind = "saveViewSettings" /\ tasks[i].phase = "loadData"
    /\ tasks' = [tasks EXCEPT ![i].read = data, ![i].phase = "resume"]
    /\ UNCHANGED <<queryVars, loopVars, viewVars, settings, data, vault, operated, eventVars, uiVars>>

\* saveViewSettings: viewSettings is set from the view and saveData called
SaveViewSettingsResume(i) ==
    /\ pc = "view"
    /\ tasks[i].kind = "saveViewSettings" /\ tasks[i].phase = "resume"
    /\ tasks' = [tasks EXCEPT
            ![i].payload = ViewSettingsPayload(tasks[i].read, Detach(tasks[i]).own),
            ![i].phase = "saveData"]
    /\ UNCHANGED <<queryVars, loopVars, viewVars, settings, data, vault, operated, eventVars, uiVars>>

\* saveViewSettings: saveData writes
SaveViewSettingsWrite(i) ==
    /\ pc = "view"
    /\ tasks[i].kind = "saveViewSettings" /\ tasks[i].phase = "saveData"
    /\ data' = tasks[i].payload
    /\ tasks' = RemoveAt(tasks, i)
    /\ UNCHANGED <<queryVars, loopVars, viewVars, settings, vault, operated, eventVars, uiVars>>

\* loadGraphData, after the nodes: the edges of the links
LoadGraphDataEdges(i) ==
    /\ pc = "view"
    /\ tasks[i].kind = "loadGraphData" /\ tasks[i].phase = "createNodes"
    /\ tasks' = [tasks EXCEPT
            ![i].edges = IF settings.showLinks
                         THEN { Edge(l.source, l.target, FALSE) :
                                  l \in { k \in VaultLinks :
                                            k.source \in tasks[i].files
                                            /\ k.target \in vault } }
                         ELSE {},
            ![i].phase = "loadData"]
    /\ UNCHANGED <<queryVars, loopVars, viewVars, settings, data, vault, operated, eventVars, uiVars>>

\* loadGraphData: loadGraphState reads the stored data
LoadGraphDataRead(i) ==
    /\ pc = "view"
    /\ tasks[i].kind = "loadGraphData" /\ tasks[i].phase = "loadData"
    /\ tasks' = [tasks EXCEPT ![i].read = LoadedGraphState(data), ![i].phase = "render"]
    /\ UNCHANGED <<queryVars, loopVars, viewVars, settings, data, vault, operated, eventVars, uiVars>>

\* graphContainer.clientWidth and clientHeight (0 while it is not laid out)
ContainerSizes == { [w |-> 0, h |-> 0], [w |-> 600, h |-> 400] }

\* (Math.random() - 0.5) * INITIAL_SPREAD for Math.random() = 0 and for the
\* largest value below 1, in whole pixels
RandomOffsets == { -(INITIAL_SPREAD \div 2), (INITIAL_SPREAD \div 2) - 1 }

Centre(size) ==
    Pos((IF size.w = 0 THEN DEFAULT_WIDTH ELSE size.w) \div 2,
        (IF size.h = 0 THEN DEFAULT_HEIGHT ELSE size.h) \div 2)

\* loadGraphData: the saved positions of the nodes it created
SavedPositions(t) ==
    IF t.read.hasGraphState
    THEN [n \in t.nodes \cap DOMAIN t.read.graphState.nodes |->
            t.read.graphState.nodes[n]]
    ELSE NoNodes

\* loadGraphData: the edges handed to renderGraph
MergedEdges(t) ==
    IF t.read.hasGraphState
    THEN t.edges \cup
         { e \in t.read.graphState.edges :
             /\ e.isManual
             /\ ~\E k \in t.edges : k.source = e.source /\ k.target = e.target }
    ELSE t.edges

\* renderGraph: the position of one element; off holds the two random
\* offsets drawn for each node that has no position
PositionSpreadSaved(n, saved, centre, off) ==
    IF n \in DOMAIN saved
    THEN Pos(saved[n].x - (INITIAL_SPREAD \div 2), saved[n].y - (INITIAL_SPREAD \div 2))
    ELSE Pos(centre.x + off[n][1], centre.y + off[n][2])

Position(n, saved, centre, off) ==
    IF n \in DOMAIN saved
    THEN saved[n]
    ELSE Pos(centre.x + off[n][1], centre.y + off[n][2])

\* loadGraphData: the saved positions are merged and renderGraph is called
LoadGraphDataRender(i) ==
    LET t == tasks[i]
        saved == SavedPositions(t)
    IN  /\ pc = "view"
        /\ t.kind = "loadGraphData" /\ t.phase = "render"
        /\ tasks' = RemoveAt(tasks, i)
        /\ IF cy.isNull \/ t.detached
           THEN UNCHANGED <<cy, layout, running>>
           ELSE \E size \in ContainerSizes :
                \E off \in [t.nodes \ DOMAIN saved -> RandomOffsets \X RandomOffsets] :
                  /\ cy' = [cy EXCEPT
                        !.nodes = [n \in t.nodes |->
                                     Position(n, saved, Centre(size), off)],
                        !.edges = { e \in MergedEdges(t) :
                                     e.source \in t.nodes /\ e.target \in t.nodes }]
                  /\ layout' = StartForceLayout(cy', layout, display, forces)
                  /\ running' = RunningAfterStart(cy', layout, running)
        /\ UNCHANGED <<queryVars, loopVars, display, forces, settings, data, vault, operated, eventVars, saveTimer, suggestion>>

\* the application ends without closing the view and is started again:
\* the calls in flight are lost, the plugin loads its settings, and the
\* view that will be opened is a new object
Restart ==
    /\ pc = "view"
    /\ cy' = NullCy
    /\ layout' = NullLayout
    /\ running' = 0
    /\ saveTimer' = FALSE
    /\ display' = DEFAULT_DISPLAY
    /\ forces' = DEFAULT_FORCES
    /\ settings' = LoadedSettings(data)
    /\ tasks' = <<>>
    /\ UNCHANGED <<queryVars, loopVars, data, vault, operated, eventVars, suggestion>>

FullViewSettings ==
    ViewSettings(
        Stored([nodeSize |-> 10, linkThickness |-> 50, showArrows |-> FALSE,
                showOrphans |-> FALSE, cardWidth |-> 400, cardHeight |-> 300,
                snippetLength |-> 500]),
        Stored([centerForce |-> 100, repelForce |-> 50, linkForce |-> 0,
                linkDistance |-> 0]))

PartialViewSettings ==
    ViewSettings(
        SavedRecord({"cardWidth"}, [DEFAULT_DISPLAY EXCEPT !.cardWidth = 400]),
        SavedRecord({}, DEFAULT_FORCES))

SomeGraphState ==
    GraphState([n \in { <<"A","b">> } |-> Pos(7, -3)], {})

\* what an earlier session left in data.json
InitialData ==
    { NoData,
      [NoData EXCEPT !.hasViewSettings = TRUE, !.viewSettings = FullViewSettings],
      [NoData EXCEPT !.hasViewSettings = TRUE, !.viewSettings = PartialViewSettings,
                     !.hasGraphState = TRUE, !.graphState = SomeGraphState] }

\* no view is open yet; the user will operate one slider of the panel, in a
\* vault without files
InitSettings ==
    /\ QueryIdle
    /\ pc = "view"
    /\ cy = NullCy
    /\ layout = NullLayout
    /\ display = DEFAULT_DISPLAY
    /\ forces = DEFAULT_FORCES
    /\ data \in InitialData
    /\ settings = LoadedSettings(data)
    /\ vault = {}
    /\ tasks = <<>>
    /\ \E sl \in Sliders : operated = {sl}
    /\ EventsIdle

TaskStep(i) ==
    \/ OnCloseResume(i)
    \/ SaveViewSettingsRead(i)
    \/ SaveViewSettingsResume(i)
    \/ SaveViewSettingsWrite(i)
    \/ LoadGraphDataEdges(i)
    \/ LoadGraphDataRead(i)
    \/ LoadGraphDataRender(i)

NextSettings ==
    \/ OnOpen
    \/ SliderInput
    \/ SliderReset
    \/ ResetSettings
    \/ OnClose
    \/ \E i \in 1..Len(tasks) : TaskStep(i)

SpecSettings == InitSettings /\ [][NextSettings]_vars

\* sessions in which the application is also restarted; the slider operated
\* is one that reloads the graph, the one that restyles it, or one that
\* restarts the layout
RestartSliders ==
    { sl \in Sliders : sl.field \in { "cardWidth", "linkThickness", "linkDistance" } }

InitRestart == InitSettings /\ operated \subseteq RestartSliders

NextRestart == NextSettings \/ Restart

SpecRestart == InitRestart /\ [][NextRestart]_vars

\* no view is open yet; the user will type into the search box, in a vault
\* of two files
InitRender ==
    /\ QueryIdle
    /\ pc = "view"
    /\ cy = NullCy
    /\ layout = NullLayout
    /\ display = DEFAULT_DISPLAY
    /\ forces = DEFAULT_FORCES
    /\ data \in { dt \in InitialData : dt.hasGraphState \/ ~dt.hasViewSettings }
    /\ settings = LoadedSettings(data)
    /\ vault = VaultFiles
    /\ tasks = <<>>
    /\ operated = {}
    /\ EventsIdle

NextRender ==
    \/ OnOpen
    \/ SearchInput
    \/ OnClose
    \/ \E i \in 1..Len(tasks) :
          \/ OnCloseResume(i)
          \/ LoadGraphDataEdges(i)
          \/ LoadGraphDataRead(i)
          \/ LoadGraphDataRender(i)

SpecRender == InitRender /\ [][NextRender]_vars

\* no view is open yet; the vault has one file, whose position an earlier
\* session stored; the user will grab its node, press Animate, move the link
\* distance or the center force slider, reset the settings and close the view
InitLayouts ==
    /\ QueryIdle
    /\ pc = "view"
    /\ cy = NullCy
    /\ layout = NullLayout
    /\ display = DEFAULT_DISPLAY
    /\ forces = DEFAULT_FORCES
    /\ data = [NoData EXCEPT !.hasGraphState = TRUE, !.graphState = SomeGraphState]
    /\ settings = LoadedSettings(data)
    /\ vault = { <<"A","b">> }
    /\ tasks = <<>>
    /\ \E sl \in Sliders :
          /\ sl.field \in { "linkDistance", "centerForce" }
          /\ operated = {sl}
    /\ EventsIdle

NextLayouts ==
    \/ OnOpen
    \/ GrabNode
    \/ RunLayout
    \/ LayoutStops
    \/ SliderInput
    \/ ResetSettings
    \/ OnClose
    \/ \E i \in 1..Len(tasks) : TaskStep(i)

SpecLayouts == InitLayouts /\ [][NextLayouts]_vars

---------------------------------------------------------------------------
(* Saving: node positions through the debounced saveGraphState, the plugin *)
(* settings through the settings tab                                       *)

\* a timer or a callback of the plugin runs while at most MaxPending earlier
\* calls are in flight
MayFire == Len(tasks) <= MaxPending

\* saveGraphState is called on an open graph: it awaits saveData
SaveGraphStateCall(c) ==
    [Task("saveGraphState", "saveData") EXCEPT !.payload = GraphStatePayload(c)]

DragTargets == { Pos(50, 60) }

\* a node is dragged and released (dragfree): saveGraphStateDebounced
DragFree ==
    \E n \in DOMAIN cy.nodes : \E pos \in DragTargets :
        /\ pc = "view"
        /\ ~cy.isNull
        /\ cy' = [cy EXCEPT !.nodes[n] = pos]
        /\ saveTimer' = TRUE
        /\ UNCHANGED <<queryVars, loopVars, layout, display, forces, pluginVars,
                       eventVars, running, suggestion>>

\* the viewport is panned, or fitted by the home button (resetView):
\* saveGraphStateDebounced
PanView ==
    /\ pc = "view"
    /\ ~cy.isNull
    /\ saveTimer' = TRUE
    /\ UNCHANGED <<queryVars, loopVars, viewVars, pluginVars, eventVars,
                   running, suggestion>>

\* 500 ms have passed since the last call of saveGraphStateDebounced:
\* saveGraphState runs
SaveTimerFires ==
    /\ pc = "view"
    /\ saveTimer
    /\ MayFire
    /\ saveTimer' = FALSE
    /\ tasks' = IF cy.isNull THEN tasks ELSE Append(tasks, SaveGraphStateCall(cy))
    /\ UNCHANGED <<queryVars, loopVars, viewVars, settings, data, vault, operated,
                   eventVars, running, suggestion>>

\* saveGraphState: saveData writes
SaveGraphStateWrite(i) ==
    /\ pc = "view"
    /\ tasks[i].kind = "saveGraphState"
    /\ data' = tasks[i].payload
    /\ tasks' = RemoveAt(tasks, i)
    /\ UNCHANGED <<queryVars, loopVars, viewVars, settings, vault, operated,
                   eventVars, uiVars>>

\* the toggle of the settings tab that is switched
SettingsToggles == { "showLinks" }

\* a toggle of the settings tab is switched: the setting is set and
\* saveSettings awaited
SettingsTabChange ==
    \E field \in SettingsToggles :
        /\ pc = "view"
        /\ Len(tasks) < MaxPending
        /\ settings' = [settings EXCEPT ![field] = ~settings[field]]
        /\ tasks' = Append(tasks, [Task("saveSettings", "saveData") EXCEPT
                                      !.payload = SettingsPayload(settings')])
        /\ UNCHANGED <<queryVars, loopVars, viewVars, data, vault, operated,
                       eventVars, uiVars>>

\* saveData of saveSettings completes: refreshAllViews
SaveSettingsWrite(i) ==
    /\ pc = "view"
    /\ tasks[i].kind = "saveSettings"
    /\ data' = tasks[i].payload
    /\ tasks' = RemoveAt(tasks, i) \o
                (IF cy.isNull THEN <<>> ELSE <<LoadGraphDataCall(settings, vault)>>)
    /\ UNCHANGED <<queryVars, loopVars, viewVars, settings, vault, operated,
                   eventVars, uiVars>>

\* what an earlier session left in data.json
PersistedData ==
    { NoData,
      [NoData EXCEPT !.hasViewSettings = TRUE, !.viewSettings = PartialViewSettings,
                     !.hasGraphState = TRUE, !.graphState = SomeGraphState] }

\* no view is open yet; the vault has one file, the user will drag its node,
\* move the link thickness slider and switch toggles of the settings tab
InitPersist ==
    /\ QueryIdle
    /\ pc = "view"
    /\ cy = NullCy
    /\ layout = NullLayout
    /\ display = DEFAULT_DISPLAY
    /\ forces = DEFAULT_FORCES
    /\ data \in PersistedData
    /\ settings = LoadedSettings(data)
    /\ vault = { <<"A","b">> }
    /\ tasks = <<>>
    /\ operated = { sl \in Sliders : sl.field = "linkThickness" }
    /\ EventsIdle

NextPersist ==
    \/ OnOpen
    \/ DragFree
    \/ PanView
    \/ SaveTimerFires
    \/ SliderInput
    \/ SettingsTabChange
    \/ OnClose
    \/ \E i \in 1..Len(tasks) :
          \/ TaskStep(i)
          \/ SaveGraphStateWrite(i)
          \/ SaveSettingsWrite(i)

SpecPersist == InitPersist /\ [][NextPersist]_vars

\* no view is open yet; the vault has one file, whose position an earlier
\* session stored; the user will drag its node, pan, and close the view
InitAutosave ==
    /\ QueryIdle
    /\ pc = "view"
    /\ cy = NullCy
    /\ layout = NullLayout
    /\ display = DEFAULT_DISPLAY
    /\ forces = DEFAULT_FORCES
    /\ data = [NoData EXCEPT !.hasGraphState = TRUE, !.graphState = SomeGraphState]
    /\ settings = LoadedSettings(data)
    /\ vault = { <<"A","b">> }
    /\ tasks = <<>>
    /\ operated = {}
    /\ EventsIdle

\* a call in flight proceeds
AutosaveStep ==
    \E i \in 1..Len(tasks) :
        \/ OnCloseResume(i)
        \/ LoadGraphDataEdges(i)
        \/ LoadGraphDataRead(i)
        \/ LoadGraphDataRender(i)
        \/ SaveGraphStateWrite(i)

NextAutosave ==
    \/ OnOpen
    \/ DragFree
    \/ PanView
    \/ SaveTimerFires
    \/ OnClose
    \/ AutosaveStep

\* loadData and saveData complete, and the save timer fires: the user
\* pauses for 500 ms at some time, and the calls in flight that hold the
\* timer back in this model complete
SpecAutosave ==
    /\ InitAutosave
    /\ [][NextAutosave]_vars
    /\ WF_vars(AutosaveStep)
    /\ SF_vars(SaveTimerFires)

---------------------------------------------------------------------------
(* Reloading: loadGraphData called again while earlier calls are in flight *)

\* the Orphans toggle of the panel
OrphansToggle ==
    /\ pc = "view"
    /\ ~cy.isNull
    /\ Len(tasks) < MaxPending
    /\ display' = [display EXCEPT !.showOrphans = ~display.showOrphans]
    /\ tasks' = Append(tasks, LoadGraphDataCall(settings, vault))
    /\ UNCHANGED <<queryVars, loopVars, cy, layout, forces, settings, data, vault,
                   operated, eventVars, uiVars>>

\* a markdown file is created in the vault: refreshAllViews calls
\* refreshGraph of the open view
FileCreated ==
    \E f \in VaultFiles \ vault :
        /\ pc = "view"
        /\ MayFire
        /\ vault' = vault \cup {f}
        /\ tasks' = IF cy.isNull THEN tasks
                    ELSE Append(tasks, LoadGraphDataCall(settings, vault'))
        /\ UNCHANGED <<queryVars, loopVars, viewVars, settings, data, operated,
                       eventVars, uiVars>>

\* no view is open yet; the vault has one file, whose position an earlier
\* session stored; the user will type into the search box and switch the
\* Orphans toggle while a second file is created
InitReload ==
    /\ QueryIdle
    /\ pc = "view"
    /\ cy = NullCy
    /\ layout = NullLayout
    /\ display = DEFAULT_DISPLAY
    /\ forces = DEFAULT_FORCES
    /\ data = [NoData EXCEPT !.hasGraphState = TRUE, !.graphState = SomeGraphState]
    /\ settings = LoadedSettings(data)
    /\ vault = { <<"A","b">> }
    /\ tasks = <<>>
    /\ operated = {}
    /\ EventsIdle

NextReload ==
    \/ OnOpen
    \/ SearchInput
    \/ OrphansToggle
    \/ FileCreated
    \/ \E i \in 1..Len(tasks) :
          \/ LoadGraphDataEdges(i)
          \/ LoadGraphDataRead(i)
          \/ LoadGraphDataRender(i)

SpecReload == InitReload /\ [][NextReload]_vars

---------------------------------------------------------------------------
(* The plugin: vault events refresh the open views, at once (main.ts) or   *)
(* through a debounce timer                                                *)

MaxEvents == 3

EventKinds == { "modify", "create", "delete", "rename" }

\* refreshAllViews: the refreshGraph calls made so far, after the call
RefreshFirstView(lv, calls) ==
    [v \in Views |->
        IF v \in lv /\ (\A u \in lv : v <= u) THEN calls[v] + 1 ELSE calls[v]]

RefreshAllViews(lv, calls) ==
    [v \in Views |-> IF v \in lv THEN calls[v] + 1 ELSE calls[v]]

\* the markdown files of the vault after an event of this kind on path f
VaultAfter(kind, f, g) ==
    CASE kind = "create" -> vault \cup {f}
      [] kind = "delete" -> vault \ {f}
      [] kind = "rename" -> (vault \ {f}) \cup {g}
      [] OTHER -> vault

\* the handlers of the vault events, for a subject that is a TFile
FileEvent(kind, f, g) ==
    /\ pc = "plugin"
    /\ vaultEvents < MaxEvents
    /\ IF kind = "create" THEN f \notin vault ELSE f \in vault
    /\ IF kind = "rename" THEN g \notin vault ELSE g = f
    /\ vaultEvents' = vaultEvents + 1
    /\ vault' = VaultAfter(kind, f, g)
    /\ IF debounced
       THEN /\ refreshTimer' = TRUE
            /\ UNCHANGED refreshCalls
       ELSE /\ refreshCalls' = RefreshAllViews(leaves, refreshCalls)
            /\ UNCHANGED refreshTimer
    /\ UNCHANGED <<queryVars, loopVars, viewVars, settings, data, tasks, operated,
                   debounced, leaves, uiVars>>

\* the handlers of the vault events, for a subject that is a folder
FolderEvent(kind) ==
    /\ pc = "plugin"
    /\ vaultEvents < MaxEvents
    /\ vaultEvents' = vaultEvents + 1
    /\ UNCHANGED <<queryVars, loopVars, viewVars, pluginVars,
                   debounced, leaves, refreshTimer, refreshCalls, uiVars>>

VaultEventOnFile ==
    \E kind \in EventKinds : \E f \in VaultFiles : \E g \in VaultFiles :
        FileEvent(kind, f, g)

VaultEventOnFolder == \E kind \in EventKinds : FolderEvent(kind)

\* 300 ms have passed since the last call of refreshAllViewsDebounced
RefreshTimerFires ==
    /\ pc = "plugin"
    /\ refreshTimer
    /\ refreshTimer' = FALSE
    /\ refreshCalls' = RefreshAllViews(leaves, refreshCalls)
    /\ UNCHANGED <<queryVars, loopVars, viewVars, pluginVars,
                   debounced, leaves, vaultEvents, uiVars>>

\* a Supergraph view is opened in a leaf
OpenLeaf ==
    \E v \in Views \ leaves :
        /\ pc = "plugin"
        /\ leaves' = leaves \cup {v}
        /\ UNCHANGED <<queryVars, loopVars, viewVars, pluginVars,
                       debounced, refreshTimer, refreshCalls, vaultEvents, uiVars>>

\* the leaf of a view is closed
CloseLeaf ==
    \E v \in leaves :
        /\ pc = "plugin"
        /\ leaves' = leaves \ {v}
        /\ UNCHANGED <<queryVars, loopVars, viewVars, pluginVars,
                       debounced, refreshTimer, refreshCalls, vaultEvents, uiVars>>

InitEvents ==
    /\ QueryIdle
    /\ pc = "plugin"
    /\ cy = NullCy
    /\ layout = NullLayout
    /\ display = DEFAULT_DISPLAY
    /\ forces = DEFAULT_FORCES
    /\ settings = LoadedSettings(NoData)
    /\ data = NoData
    /\ vault = { <<"A","b">> }
    /\ tasks = <<>>
    /\ operated = {}
    /\ debounced \in BOOLEAN
    /\ leaves = {}
    /\ refreshTimer = FALSE
    /\ refreshCalls = [v \in Views |-> 0]
    /\ vaultEvents = 0
    /\ saveTimer = FALSE
    /\ running = 0
    /\ suggestion = NoSuggestion

NextEvents ==
    \/ VaultEventOnFile
    \/ VaultEventOnFolder
    \/ RefreshTimerFires
    \/ OpenLeaf
    \/ CloseLeaf

\* an armed timer fires
SpecEvents == InitEvents /\ [][NextEvents]_vars /\ WF_vars(RefreshTimerFires)

---------------------------------------------------------------------------
(* shouldIncludeFile, applied to one file under some plugin settings       *)

MaxFilterLen == 3   \* the file filter has at most this many characters

FilterChars == { " ", "a", "B" }

RECURSIVE FilterTexts(_)
FilterTexts(n) ==
    IF n = 0 THEN { <<>> }
    ELSE FilterTexts(n - 1) \cup
         { Append(t, c) : t \in { u \in FilterTexts(n - 1) : Len(u) = n - 1 },
                          c \in FilterChars }

FilterPaths == { <<"A","b">>, <<"b","B">>, <<"a"," ","b">>, <<"c">> }

InitFilter ==
    /\ QueryIdle
    /\ pc = "filter"
    /\ cy = NullCy
    /\ layout = NullLayout
    /\ display = DEFAULT_DISPLAY
    /\ forces = DEFAULT_FORCES
    /\ \E all \in BOOLEAN, text \in FilterTexts(MaxFilterLen) :
          settings = [LoadedSettings(NoData) EXCEPT !.showAllFiles = all,
                                              !.fileFilter = text]
    /\ data = NoData
    /\ \E path \in FilterPaths : vault = {path}
    /\ tasks = <<>>
    /\ operated = {}
    /\ EventsIdle

\* matched = shouldIncludeFile(file), for the one file of the vault
ShouldIncludeFile ==
    /\ pc = "filter"
    /\ \E path \in vault : matched' = shouldIncludeFile(path, settings)
    /\ pc' = "filtered"
    /\ UNCHANGED <<query, query2, terms, file, extractedAliases, extractedTags,
                   loopVars, viewVars, pluginVars, eventVars, uiVars>>

NextFilter == ShouldIncludeFile

SpecFilter == InitFilter /\ [][NextFilter]_vars

---------------------------------------------------------------------------
(* Vocabulary of the properties                                            *)

\* the whitespace-delimited tokens of q, as pairs of first and last position
TokenSpans(q) ==
    { <<i, j>> \in (1..Len(q)) \X (1..Len(q)) :
        /\ i <= j
        /\ \A k \in i..j : ~IsSpace(q[k])
        /\ (i = 1 \/ IsSpace(q[i - 1]))
        /\ (j = Len(q) \/ IsSpace(q[j + 1])) }

SpanText(q, sp) == SubSeq(q, sp[1], sp[2])

HasQuote(q) == \E i \in 1..Len(q) : q[i] = Quote

\* q has at least one token, has no quote, and all its tokens are in S
AllTokensIn(q, S) ==
    /\ ~HasQuote(q)
    /\ TokenSpans(q) # {}
    /\ \A sp \in TokenSpans(q) : SpanText(q, sp) \in S

\* parseQuery has just returned terms for query
Parsed == pc = "parsed"

\* s contains v, stated without String.prototype.includes
Contains(s, v) == \E a \in 0..Len(s) : \E b \in a..Len(s) : SubSeq(s, a + 1, b) = v

SeqToSet(s) == { s[i] : i \in 1..Len(s) }

---------------------------------------------------------------------------
(* C1 *)

\* C1: parseQuery of the query made of a single minus returns no term, and
\* a whitespace-delimited token that is a lone minus contributes no term:
\* a query without quotes yields at most as many terms as it has tokens
\* other than the lone minus.
C1_LoneMinusYieldsNoTerm ==
    Parsed /\ ~HasQuote(query) =>
        Len(terms) <= Cardinality({ sp \in TokenSpans(query) :
                                      SpanText(query, sp) # <<"-">> })

---------------------------------------------------------------------------
(* C2 *)

\* every whitespace-delimited token of q is in EmptyValueTokens
OnlyEmptyValueTokens(q) ==
    /\ TokenSpans(q) # {}
    /\ \A sp \in TokenSpans(q) : SpanText(q, sp) \in EmptyValueTokens

---------------------------------------------------------------------------
(* C3 *)

\* the term the grammar assigns to a well-formed token
TermOfToken(t) ==
    SearchTerm(IF t.prefix = "undefined" THEN "text" ELSE t.prefix,
               toLowerCase(t.v), t.neg)

DocExampleTerms ==
    << SearchTerm("text", <<"f","o","o">>, FALSE),
       SearchTerm("tag", <<"m","y"," ","p","r","o","j","e","c","t">>, FALSE),
       SearchTerm("path", <<"a","r","c","h","i","v","e">>, TRUE) >>

\* C3: a query that is one well-formed token yields exactly one term, of
\* the type of its prefix (text without prefix), with the value lowercased
\* (whitespace of a quoted value kept) and negated iff it starts with a
\* minus; and the example of the documentation yields exactly its three
\* terms.
C3_SingleTokenTerm ==
    Parsed =>
        /\ \A t \in TokenSpecs :
              query = TokenText(t) => terms = <<TermOfToken(t)>>
        /\ (query = DocExample => terms = DocExampleTerms)

C3_Witness ==
    /\ pc = "parsed"
    /\ query = Token(TRUE, "tag", TRUE, <<"a"," ","B">>)
    /\ terms = <<SearchTerm("tag", <<"a"," ","b">>, TRUE)>>


---------------------------------------------------------------------------
(* C4 *)

\* term i of the sequence matches the file
TermMatchesFile(f, ts, i) ==
    termMatches(ts[i], toLowerCase(f.path),
                extractAliases(f.cache), extractTags(f.cache))

\* C4: matchesQuery returns true iff every non-negated term matches the
\* file and no negated term matches it, wherever the terms stand in the
\* sequence.
C4_AndOverTermsAndNotOverNegated ==
    pc = "matched" =>
        (matched <=>
            \A i \in 1..Len(terms) :
                IF terms[i].negated THEN ~TermMatchesFile(file, terms, i)
                ELSE TermMatchesFile(file, terms, i))

\* a positive term that matches stands before a negated term that matches
C4_Witness ==
    /\ pc = "matched"
    /\ Len(terms) = 2
    /\ ~terms[1].negated /\ TermMatchesFile(file, terms, 1)
    /\ terms[2].negated /\ TermMatchesFile(file, terms, 2)
    /\ ~matched

---------------------------------------------------------------------------
(* C5 *)

\* the matching of one term as the specification words it
SpecTermMatches(t, f) ==
    CASE t.type = "tag" ->
            \E tag \in SeqToSet(extractTags(f.cache)) : Contains(tag, t.value)
      [] t.type = "path" -> Contains(toLowerCase(f.path), t.value)
      [] t.type = "text" ->
            \/ Contains(toLowerCase(f.path), t.value)
            \/ \E alias \in SeqToSet(extractAliases(f.cache)) :
                  Contains(alias, t.value)

\* C5: a single term matches a file by substring containment keyed on its
\* type: a tag term on the extracted tags only, a path term on the
\* lowercased path only, a text term on the lowercased path or the aliases
\* (a negated single term gives the opposite result).
C5_SingleTermBySubstring ==
    pc = "matched" /\ Len(terms) = 1 =>
        (matched <=> (terms[1].negated # SpecTermMatches(terms[1], file)))

\* tag:pro matches the file tagged project
C5_Witness ==
    /\ pc = "matched"
    /\ query = TagProExample
    /\ file.cache.hasTags
    /\ file.cache.tags = << <<"#","p","r","o","j","e","c","t">> >>
    /\ matched

---------------------------------------------------------------------------
(* C6 *)

AllSpace(q) == \A i \in 1..Len(q) : IsSpace(q[i])

\* C6: parseQuery of the empty string and of a whitespace-only string
\* returns no term, and matchesQuery with no term returns true for every
\* file.
C6_EmptyQueryMatchesAll ==
    /\ (Parsed /\ AllSpace(query) => terms = <<>>)
    /\ (pc = "matched" /\ terms = <<>> => matched)

C6_Witness ==
    /\ pc = "matched"
    /\ query = <<" ", " ">>
    /\ terms = <<>>
    /\ file.path = <<"A","b">>
    /\ ~file.cache.isNull
    /\ matched

---------------------------------------------------------------------------
(* C7 *)

\* C7: a token that is tag: or path: with nothing after the colon, with or
\* without a leading minus, contributes no term: a query made of such
\* tokens only yields no term.
C7_EmptyPrefixElided ==
    Parsed /\ AllTokensIn(query, EmptyPrefixTokens) => terms = <<>>

---------------------------------------------------------------------------
(* C8 *)

\* what may stand before the opening quote of a token
TokenLeads ==
    { Token(neg, prefix, FALSE, <<>>) : neg \in BOOLEAN, prefix \in Prefixes }

\* q is one fragment whose opening quote is never closed
UnterminatedFragment(q) ==
    \E lead \in TokenLeads :
        /\ HasAt(q, 1, lead \o <<Quote>>)
        /\ Len(q) > Len(lead) + 1
        /\ \A i \in (Len(lead) + 2)..Len(q) : q[i] # Quote

\* C8: a fragment with an unterminated quote is elided: parseQuery returns
\* no term derived from it.
C8_UnterminatedQuoteElided ==
    Parsed /\ UnterminatedFragment(query) => terms = <<>>

---------------------------------------------------------------------------
(* C9 *)

\* C9: for well-formed queries q1 and q2, parseQuery(q1 + space + q2) is
\* parseQuery(q1) followed by parseQuery(q2): order and duplicates are kept.
C9_ConcatenationKeepsOrder ==
    pc = "parsedConcat" => terms = parseQuery(query) \o parseQuery(query2)

\* the same token twice yields the same term twice
C9_Witness ==
    /\ pc = "parsedConcat"
    /\ query = Token(TRUE, "tag", FALSE, <<"B">>)
    /\ query2 = query
    /\ terms = << SearchTerm("tag", <<"b">>, TRUE), SearchTerm("tag", <<"b">>, TRUE) >>

---------------------------------------------------------------------------
(* C10 *)

IsLetter(c) == \E i \in 1..26 : c = UpperLetters[i] \/ c = LowerLetters[i]

\* a bare word: letters only
BareWord(q) == q # <<>> /\ \A i \in 1..Len(q) : IsLetter(q[i])

\* the frontmatter value, the cache and the file with every string
\* converted by conv
ConvFm(v, conv(_)) ==
    [kind |-> v.kind, str |-> conv(v.str),
     items |-> [i \in 1..Len(v.items) |->
                  [isString |-> v.items[i].isString, str |-> conv(v.items[i].str)]]]

ConvFile(f, conv(_)) ==
    [path |-> conv(f.path),
     cache |-> [isNull |-> f.cache.isNull, hasTags |-> f.cache.hasTags,
                tags |-> [i \in 1..Len(f.cache.tags) |-> conv(f.cache.tags[i])],
                hasFrontmatter |-> f.cache.hasFrontmatter,
                fmTags |-> ConvFm(f.cache.fmTags, conv),
                fmAliases |-> ConvFm(f.cache.fmAliases, conv)]]

\* C10: matching is case-insensitive: a bare word in upper case and in
\* lower case gives the same result on every file, and changing the letter
\* case of the path, aliases and tags of the file does not change the
\* result for the terms parseQuery produced.
C10_CaseInsensitive ==
    pc = "matched" =>
        /\ matched = matchesQuery(ConvFile(file, toUpperCase), terms)
        /\ matched = matchesQuery(ConvFile(file, toLowerCase), terms)
        /\ (BareWord(query) =>
              /\ matched = matchesQuery(file, parseQuery(toUpperCase(query)))
              /\ matched = matchesQuery(file, parseQuery(toLowerCase(query))))

\* the upper-case word B matches the path Ab, which has it in lower case
C10_Witness ==
    /\ pc = "matched"
    /\ query = <<"B">>
    /\ file.path = <<"A","b">>
    /\ file.cache.isNull
    /\ matched

---------------------------------------------------------------------------
(* C11 *)

\* the string entries of a frontmatter value, in order: the value itself
\* when it is a string, its string items when it is an array
StringEntries(v) ==
    CASE v.kind = "string" -> <<v.str>>
      [] v.kind = "array" ->
            LET strs == SelectSeq(v.items, LAMBDA it : it.isString)
            IN  [i \in 1..Len(strs) |-> strs[i].str]
      [] OTHER -> <<>>

\* the same, a single empty string counting as an absent field
StringEntriesOfTruthy(v) ==
    IF v.kind = "string" /\ v.str = <<>> THEN <<>> ELSE StringEntries(v)

\* the tag without its leading marker, lowercased
TagName(s) ==
    toLowerCase(IF s # <<>> /\ s[1] = "#" THEN Tail(s) ELSE s)

FrontmatterOf(cache, field) ==
    IF cache.isNull \/ ~cache.hasFrontmatter THEN FmUndefined
    ELSE IF field = "tags" THEN cache.fmTags ELSE cache.fmAliases

InlineTagNames(cache) ==
    IF cache.isNull \/ ~cache.hasTags THEN <<>>
    ELSE [i \in 1..Len(cache.tags) |-> TagName(cache.tags[i])]

Extracted == pc = "matched" /\ terms # <<>>

\* C11 as claimed: extractAliases returns exactly the lowercased string
\* entries of the aliases field and extractTags the inline tags followed by
\* the string entries of the tags field, markers stripped and lowercased,
\* for every cache (null, without frontmatter, field absent, string, array
\* with non-strings).
C11_ExtractionExact ==
    Extracted =>
        /\ extractedAliases =
              LET es == StringEntries(FrontmatterOf(file.cache, "aliases"))
              IN  [i \in 1..Len(es) |-> toLowerCase(es[i])]
        /\ extractedTags =
              InlineTagNames(file.cache)
              \o LET es == StringEntries(FrontmatterOf(file.cache, "tags"))
                 IN  [i \in 1..Len(es) |-> TagName(es[i])]

\* C11 amended: the same, except that a field that is a single empty
\* string is treated as absent and yields no entry.
C11_ExtractionExactOfTruthy ==
    Extracted =>
        /\ extractedAliases =
              LET es == StringEntriesOfTruthy(FrontmatterOf(file.cache, "aliases"))
              IN  [i \in 1..Len(es) |-> toLowerCase(es[i])]
        /\ extractedTags =
              InlineTagNames(file.cache)
              \o LET es == StringEntriesOfTruthy(FrontmatterOf(file.cache, "tags"))
                 IN  [i \in 1..Len(es) |-> TagName(es[i])]

\* an array of tags mixing strings (with and without marker) and a
\* non-string, and a single string of aliases
C11_Witness ==
    /\ Extracted
    /\ file.cache.fmTags.kind = "array"
    /\ Len(file.cache.fmTags.items) = 3
    /\ extractedTags = << <<"a","b">>, <<"a">> >>
    /\ extractedAliases = << <<"b">> >>

---------------------------------------------------------------------------
(* C12 *)

\* the sequence holds a term and the same term negated
ConflictingNegation(ts) ==
    \E i, j \in 1..Len(ts) :
        /\ ts[i].type = ts[j].type
        /\ ts[i].value = ts[j].value
        /\ ~ts[i].negated
        /\ ts[j].negated

\* C12: a term sequence that holds a term and the same term negated
\* matches no file, whatever their order and the other terms.
C12_ConflictingNegationMatchesNothing ==
    pc = "matched" /\ ConflictingNegation(terms) => ~matched

\* the positive term stands first and matches the file, another term
\* stands before both
C12_Witness ==
    /\ pc = "matched"
    /\ Len(terms) = 3
    /\ ConflictingNegation(terms)
    /\ ~terms[1].negated /\ TermMatchesFile(file, terms, 1)
    /\ ~terms[2].negated /\ TermMatchesFile(file, terms, 2)
    /\ terms[3].negated
    /\ ~matched

---------------------------------------------------------------------------
(* C13 *)

\* C13: parseQuery is total: every iteration of the tokenizing loop
\* consumes at least one character of the query (the match is not empty
\* and lastIndex grows, staying within the query, so that there are at
\* most as many iterations as characters), and the loop returns the terms.
C13_ParseQueryTerminates ==
    /\ [][pc' = "loop" => lastIndex' > lastIndex]_vars
    /\ [](pc = "loop" /\ matchIndex # 0 =>
             /\ matchIndex < lastIndex
             /\ lastIndex <= Len(query) + 1)
    /\ [](pc = "returned" => terms = parseQuery(query))

\* the loop has returned after an iteration that pushed nothing and one
\* that pushed a term
C13_Witness ==
    /\ pc = "returned"
    /\ query = <<Quote, Quote, " ", "a">>
    /\ Len(terms) = 1
    /\ matchIndex = 4

---------------------------------------------------------------------------
(* C14 *)

LayoutStarted == ~layout.isNull

\* C14: the link distance handed to the engine is the setting when the
\* setting is at least MIN_LINK_DISTANCE and exactly MIN_LINK_DISTANCE
\* otherwise, so never below it.
C14_LinkDistanceFloor ==
    LayoutStarted =>
        /\ layout.options.linkDistance >= MIN_LINK_DISTANCE
        /\ (forces.linkDistance < MIN_LINK_DISTANCE =>
              layout.options.linkDistance = MIN_LINK_DISTANCE)
        /\ (forces.linkDistance >= MIN_LINK_DISTANCE =>
              layout.options.linkDistance = forces.linkDistance)

C14_Witness ==
    /\ LayoutStarted
    /\ forces.linkDistance = -10
    /\ layout.options.linkDistance = 30

---------------------------------------------------------------------------
(* C15 *)

\* C15: the many-body strength handed to the engine is minus repelForce
\* times REPEL_MULTIPLIER: 0 for repelForce 0, never positive for a
\* repelForce that is not negative.
C15_RepelStrength ==
    LayoutStarted =>
        /\ layout.options.manyBodyStrength + forces.repelForce * 60 = 0
        /\ (forces.repelForce = 0 => layout.options.manyBodyStrength = 0)
        /\ (forces.repelForce >= 0 => layout.options.manyBodyStrength <= 0)

C15_Witness ==
    /\ LayoutStarted
    /\ forces.repelForce = 50
    /\ layout.options.manyBodyStrength = -3000

---------------------------------------------------------------------------
(* C16 *)

---------------------------------------------------------------------------
(* C17 *)

\* C17: the reset button of a slider sets the field of the slider to its
\* default and leaves every other field of display and forces, and the
\* file filter of the plugin settings, as they were.
C17_ResetIsLocal ==
    [][\A sl \in Sliders :
          ResetOf(sl) =>
            /\ \A f \in DisplayFields :
                 display'[f] = IF sl.of = "display" /\ sl.field = f
                               THEN DEFAULT_DISPLAY[f]
                               ELSE display[f]
            /\ \A f \in ForceFields :
                 forces'[f] = IF sl.of = "forces" /\ sl.field = f
                              THEN DEFAULT_FORCES[f]
                              ELSE forces[f]
            /\ settings'.fileFilter = settings.fileFilter]_vars

\* the card width was reset while every other field holds a loaded value
C17_Witness ==
    /\ ~cy.isNull
    /\ display = [FullViewSettings.display.fields EXCEPT !.cardWidth = 200]
    /\ forces = FullViewSettings.forces.fields
    /\ \E i \in 1..Len(tasks) : tasks[i].kind = "saveViewSettings"

---------------------------------------------------------------------------
(* C18 *)

\* C18: saveViewSettings stores the complete display and forces of the
\* view, and a view opened on stored view settings gets every field that
\* is stored with its stored value and every other field with its default.
C18_RoundTrip ==
    /\ [][\A i \in 1..Len(tasks) :
            SaveViewSettingsResume(i) /\ ~tasks[i].detached =>
              /\ tasks'[i].payload.viewSettings.display = Stored(display)
              /\ tasks'[i].payload.viewSettings.forces = Stored(forces)]_vars
    /\ [][\A i \in 1..Len(tasks) :
            SaveViewSettingsWrite(i) =>
              data'.viewSettings = tasks[i].payload.viewSettings]_vars
    /\ [][OnOpen /\ data.hasViewSettings =>
            /\ \A f \in DisplayFields :
                 display'[f] = IF f \in data.viewSettings.display.present
                               THEN data.viewSettings.display.fields[f]
                               ELSE DEFAULT_DISPLAY[f]
            /\ \A f \in ForceFields :
                 forces'[f] = IF f \in data.viewSettings.forces.present
                              THEN data.viewSettings.forces.fields[f]
                              ELSE DEFAULT_FORCES[f]]_vars

\* a view just opened (no layout yet) holds the link distance that a slider
\* of an earlier view set and saveViewSettings stored
C18_Witness ==
    /\ ~cy.isNull
    /\ layout = NullLayout
    /\ forces.linkDistance = 300
    /\ data.hasViewSettings
    /\ data.viewSettings = ViewSettings(Stored(display), Stored(forces))

---------------------------------------------------------------------------
(* C19 *)

Abs(n) == IF n < 0 THEN -n ELSE n

\* the step of call i of loadGraphData that reaches renderGraph on an open
\* graph instance
Rendering(i) ==
    /\ tasks[i].kind = "loadGraphData" /\ tasks[i].phase = "render"
    /\ tasks' = RemoveAt(tasks, i)
    /\ ~cy.isNull /\ ~cy'.isNull /\ ~tasks[i].detached

HasPersistedPosition(t, n) ==
    t.read.hasGraphState /\ n \in DOMAIN t.read.graphState.nodes

\* C19: renderGraph places a node that has a persisted position exactly
\* there, and any other node within INITIAL_SPREAD / 2 of the centre of the
\* container on each axis.
C19_Placement ==
    [][\A i \in 1..Len(tasks) :
          Rendering(i) =>
            /\ DOMAIN cy'.nodes = tasks[i].nodes
            /\ \A n \in tasks[i].nodes :
                 IF HasPersistedPosition(tasks[i], n)
                 THEN cy'.nodes[n] = tasks[i].read.graphState.nodes[n]
                 ELSE \E size \in ContainerSizes :
                        /\ Abs(cy'.nodes[n].x - Centre(size).x) <= INITIAL_SPREAD \div 2
                        /\ Abs(cy'.nodes[n].y - Centre(size).y) <= INITIAL_SPREAD \div 2]_vars

\* one node at its persisted position, the other near the centre
C19_Witness ==
    /\ ~cy.isNull
    /\ DOMAIN cy.nodes = VaultFiles
    /\ cy.nodes[<<"A","b">>] = Pos(7, -3)
    /\ cy.nodes[<<"b","B">>] = Pos(380, 319)

---------------------------------------------------------------------------
(* C20 *)

\* C20: a vault event on a file makes a refreshGraph call on every open
\* view, at once or, in the debounced build, when the timer it arms fires,
\* which it eventually does; a vault event on a folder makes no call and
\* arms no timer.
C20_AutoUpdate ==
    /\ [][\A kind \in EventKinds : \A f \in VaultFiles : \A g \in VaultFiles :
            FileEvent(kind, f, g) =>
              IF debounced
              THEN refreshTimer'
              ELSE \A v \in leaves : refreshCalls'[v] = refreshCalls[v] + 1]_vars
    /\ [][refreshTimer /\ ~refreshTimer' =>
            \A v \in leaves : refreshCalls'[v] = refreshCalls[v] + 1]_vars
    /\ (refreshTimer ~> ~refreshTimer)
    /\ [][\A kind \in EventKinds :
            FolderEvent(kind) =>
              /\ refreshCalls' = refreshCalls
              /\ refreshTimer' = refreshTimer]_vars

\* two events on files, debounced into one refresh of both open views
C20_Witness ==
    /\ debounced
    /\ ~refreshTimer
    /\ vaultEvents = 2
    /\ leaves = Views
    /\ refreshCalls = [v \in Views |-> 1]

---------------------------------------------------------------------------
\* C23: shouldIncludeFile returns true exactly when showAllFiles is set and
\* the file filter, without its surrounding whitespace, is empty or a
\* substring of the path up to the case of the letters

\* s with the whitespace before its first and after its last other character
\* left out
Trimmed(s) ==
    IF AllSpace(s) THEN <<>>
    ELSE LET inner == { k \in 1..Len(s) : ~IsSpace(s[k]) }
             first == CHOOSE k \in inner : \A m \in inner : k <= m
             last == CHOOSE k \in inner : \A m \in inner : m <= k
         IN  SubSeq(s, first, last)

SubstringUpToCase(sub, s) ==
    \E k \in 0..(Len(s) - Len(sub)) :
        \A m \in 1..Len(sub) : UpperChar(s[k + m]) = UpperChar(sub[m])

C23_FileFilter ==
    pc = "filtered" =>
        \A path \in vault :
            matched <=>
                /\ settings.showAllFiles
                /\ \/ Trimmed(settings.fileFilter) = <<>>
                   \/ SubstringUpToCase(Trimmed(settings.fileFilter), path)

C23_Witness ==
    /\ pc = "filtered"
    /\ matched
    /\ settings.fileFilter = <<" ", "B", " ">>
    /\ vault = { <<"A","b">> }

---------------------------------------------------------------------------
\* C24: every edge renderGraph hands to the graph library has its source and
\* its target among the nodes of the same call
C24_EdgesAmongNodes ==
    [][\A i \in 1..Len(tasks) :
          Rendering(i) =>
            \A e \in MergedEdges(tasks[i]) :
                e.source \in tasks[i].nodes /\ e.target \in tasks[i].nodes]_vars

---------------------------------------------------------------------------
(* C22, C25, C26: the entries of the plugin data under the three writers   *)

\* the entries of a data object, as loadData returns them
GraphStateEntry(dt) == IF dt.hasGraphState THEN <<dt.graphState>> ELSE <<>>

ViewSettingsEntry(dt) == IF dt.hasViewSettings THEN <<dt.viewSettings>> ELSE <<>>

SettingsEntry(dt) == IF dt.hasSettings THEN <<dt.settings>> ELSE <<>>

\* C22: a stored graphState is still the one loadGraphState returns after a
\* write of saveSettings, and after the write of a saveViewSettings call
\* that read the data when that graphState was already stored
C22_GraphStateSurvivesSettings ==
    [][\A i \in 1..Len(tasks) :
          /\ data.hasGraphState
          /\ \/ SaveSettingsWrite(i)
             \/ /\ SaveViewSettingsWrite(i)
                /\ GraphStateEntry(tasks[i].read) = GraphStateEntry(data)
          => LoadedGraphState(data') = LoadedGraphState(data)]_vars

\* C25: a write of saveGraphState (from the save timer or from onClose)
\* leaves the stored plugin settings and view settings as they were
C25_SaveGraphStateKeepsOthers ==
    [][\A i \in 1..Len(tasks) :
          (SaveGraphStateWrite(i) \/ OnCloseResume(i)) =>
              /\ ViewSettingsEntry(data') = ViewSettingsEntry(data)
              /\ SettingsEntry(data') = SettingsEntry(data)]_vars

\* C26: the write of a saveViewSettings call never replaces the stored
\* graphState, whatever saveGraphState wrote between its read and its write
C26_NoLostGraphState ==
    [][\A i \in 1..Len(tasks) :
          SaveViewSettingsWrite(i) =>
              GraphStateEntry(data') = GraphStateEntry(data)]_vars

---------------------------------------------------------------------------
\* C21: the position a node was dragged to, in an open view, is eventually
\* the position of that node in the stored graphState, unless the node has
\* left that position in the meantime
StoredAt(n, pos) ==
    /\ data.hasGraphState
    /\ n \in DOMAIN data.graphState.nodes
    /\ data.graphState.nodes[n] = pos

DraggedTo(n, pos) ==
    /\ ~cy.isNull
    /\ saveTimer
    /\ n \in DOMAIN cy.nodes
    /\ cy.nodes[n] = pos

LeftPosition(n, pos) ==
    /\ ~cy.isNull
    /\ n \notin DOMAIN cy.nodes \/ cy.nodes[n] # pos

C21_PositionsSaved ==
    \A n \in VaultFiles : \A pos \in DragTargets :
        DraggedTo(n, pos) ~> (StoredAt(n, pos) \/ LeftPosition(n, pos))

---------------------------------------------------------------------------
(* C27, C29: the rendered node set once every loadGraphData call is done   *)

\* the view is open and no call of loadGraphData is in flight
Reloaded ==
    /\ ~cy.isNull
    /\ ~layout.isNull
    /\ \A i \in 1..Len(tasks) : tasks[i].kind # "loadGraphData"

\* C27: once every invocation of loadGraphData has completed, the rendered
\* nodes are the files of the vault that pass the file filter as they are
\* at the most recent invocation
C27_LatestWins ==
    Reloaded => DOMAIN cy.nodes = { f \in vault : shouldIncludeFile(f, settings) }

IsOrphan(n) == \A e \in cy.edges : e.source # n /\ e.target # n

\* C29: while the Orphans toggle is off, the rendered node set has no file
\* that is an endpoint of no edge
C29_OrphansHidden ==
    (Reloaded /\ ~display.showOrphans) => \A n \in DOMAIN cy.nodes : ~IsOrphan(n)

---------------------------------------------------------------------------
\* C28: at most one force layout runs at any time, and none while the graph
\* instance is null (before the view is opened, and after onClose completed)
C28_OneLayout ==
    /\ running <= 1
    /\ cy.isNull => running = 0

\* a layout started by the link distance slider runs in place of the one
\* renderGraph had started
C28_Witness ==
    /\ ~cy.isNull
    /\ DOMAIN cy.nodes # {}
    /\ running = 1
    /\ ~layout.isNull /\ layout.running
    /\ forces.linkDistance = 300
    /\ layout.options = LayoutOptions(display, forces)


----------------------------------------------------------------------------
(* SearchSuggest: the completion of the token being typed                  *)
(* query holds textInputEl.value, suggestion the item last selected.       *)

SuggestionItem(type, value, shown) ==
    [type |-> type, value |-> value, display |-> shown]

TagColon == <<"t","a","g",":">>
PathColon == <<"p","a","t","h",":">>

PREFIX_SUGGESTIONS ==
    { SuggestionItem("prefix", TagColon, TagColon),
      SuggestionItem("prefix", PathColon, PathColon),
      SuggestionItem("prefix", <<"-">>, <<"-"," ","(","e","x","c","l","u","d","e",")">>) }

\* SearchSuggest.limit; the caches below hold fewer entries than this, so
\* that no loop breaks early and slice(0, limit) cuts nothing
limit == 20

\* the caches refreshSuggestionData fills: tags (lowercase, without #),
\* folder paths, and basename (lowercase) -> path of the files
SuggestTags == { <<"p","q">>, <<"n","p">> }
SuggestPaths == { <<"N">> }
SuggestFiles == { [basename |-> <<"p">>, path |-> <<"N","/","p">>] }

\* String.prototype.startsWith
startsWith(s, lit) == HasAt(s, 1, lit)

\* the first index from k on that holds no whitespace
RECURSIVE SkipSpaces(_, _)
SkipSpaces(s, k) ==
    IF k <= Len(s) /\ IsSpace(s[k]) THEN SkipSpaces(s, k + 1) ELSE k

\* String.prototype.split(/\s+/): the pieces between maximal runs of
\* whitespace, an empty piece before a leading and after a trailing run
RECURSIVE SplitSpaces(_)
SplitSpaces(s) ==
    LET ws == { i \in 1..Len(s) : IsSpace(s[i]) }
    IN  IF ws = {} THEN <<s>>
        ELSE LET i == CHOOSE i \in ws : \A j \in ws : i <= j
             IN  <<SubSeq(s, 1, i - 1)>>
                 \o SplitSpaces(SubSeq(s, SkipSpaces(s, i), Len(s)))

\* Array.prototype.join(" ")
RECURSIVE JoinSpace(_)
JoinSpace(parts) ==
    IF parts = <<>> THEN <<>>
    ELSE IF Len(parts) = 1 THEN parts[1]
    ELSE parts[1] \o <<" ">> \o JoinSpace(Tail(parts))

getCurrentToken(inputValue) ==
    LET parts == SplitSpaces(inputValue)
        lastPart == parts[Len(parts)]
        isNegated == startsWith(lastPart, <<"-">>) /\ Len(lastPart) > 1
    IN  [prefix |-> IF Len(parts) > 1
                    THEN JoinSpace(SubSeq(parts, 1, Len(parts) - 1)) \o <<" ">>
                    ELSE <<>>,
         token |-> IF isNegated THEN Slice1(lastPart) ELSE lastPart,
         isNegated |-> isNegated]

\* the items offered for inputValue, as a set (their order is not modelled)
getSuggestions(inputValue) ==
    LET cur == getCurrentToken(inputValue)
        token == cur.token
        negationPrefix == IF cur.isNegated THEN <<"-">> ELSE <<>>
        q == toLowerCase(token)
    IN  IF token = <<>> \/ (token = <<"-">> /\ ~cur.isNegated)
        THEN PREFIX_SUGGESTIONS
        ELSE IF startsWith(token, TagColon)
        THEN { SuggestionItem("tag", tag, <<"#">> \o tag) :
                 tag \in { t \in SuggestTags :
                             includes(t, toLowerCase(SubSeq(token, 5, Len(token)))) } }
        ELSE IF startsWith(token, PathColon)
        THEN { SuggestionItem("path", path, path) :
                 path \in { p \in SuggestPaths :
                              includes(toLowerCase(p),
                                       toLowerCase(SubSeq(token, 6, Len(token)))) } }
        ELSE { SuggestionItem("prefix", negationPrefix \o p.value, p.display) :
                 p \in { s \in PREFIX_SUGGESTIONS :
                           startsWith(s.value, q) /\ s.value # q } }
             \cup
             { SuggestionItem("tag", negationPrefix \o TagColon \o tag, <<"#">> \o tag) :
                 tag \in { t \in SuggestTags : includes(t, q) } }
             \cup
             { SuggestionItem("file", negationPrefix \o PathColon \o f.path, f.basename) :
                 f \in { g \in SuggestFiles : includes(g.basename, q) } }

\* the value selectSuggestion writes to the input
selectSuggestion(item, inputValue) ==
    LET cur == getCurrentToken(inputValue)
        negationPrefix == IF cur.isNegated THEN <<"-">> ELSE <<>>
        insertValue ==
            IF item.type = "prefix" THEN negationPrefix \o item.value
            ELSE IF item.type = "tag" THEN negationPrefix \o TagColon \o item.value
            ELSE IF item.type \in {"path", "file"}
                 THEN negationPrefix \o PathColon \o item.value
            ELSE negationPrefix \o item.value
    IN  cur.prefix \o insertValue
        \o (IF item.type = "prefix" THEN <<>> ELSE <<" ">>)

\* the tokens typed before the current one, each followed by one or two
\* spaces: at most n of them
MaxBefore == 1

RECURSIVE BeforeTexts(_)
BeforeTexts(n) ==
    IF n = 0 THEN { <<>> }
    ELSE BeforeTexts(n - 1)
         \cup { b \o <<"x">> \o sep :
                  b \in BeforeTexts(n - 1), sep \in { <<" ">>, <<" "," ">> } }

\* the token being typed
TypedTokens ==
    { <<>>, <<"-">>, <<"p">>, <<"-","p">>, <<"n">>, <<"-","n">>,
      TagColon, TagColon \o <<"p">>, <<"-">> \o TagColon \o <<"p">>,
      PathColon, PathColon \o <<"n">>, <<"-">> \o PathColon \o <<"n">> }

InitSuggest ==
    /\ query \in { b \o t : b \in BeforeTexts(MaxBefore), t \in TypedTokens }
    /\ query2 = <<>>
    /\ terms = <<>>
    /\ file = NoFile
    /\ matched = FALSE
    /\ extractedAliases = <<>>
    /\ extractedTags = <<>>
    /\ pc = "typing"
    /\ LoopIdle
    /\ ViewIdle

\* the user picks one of the items offered for the text of the input
SelectSuggestion ==
    /\ pc = "typing"
    /\ \E item \in getSuggestions(query) :
          /\ suggestion' = item
          /\ query' = selectSuggestion(item, query)
    /\ query2' = query
    /\ pc' = "selected"
    /\ UNCHANGED <<terms, file, matched, extractedAliases, extractedTags,
                   loopVars, viewVars, pluginVars, eventVars, saveTimer, running>>

NextSuggest == SelectSuggestion

SpecSuggest == InitSuggest /\ [][NextSuggest]_vars

\* the text of v up to and including its last whitespace character
TextBefore(v) ==
    LET ws == { i \in 1..Len(v) : IsSpace(v[i]) }
    IN  IF ws = {} THEN <<>>
        ELSE SubSeq(v, 1, CHOOSE i \in ws : \A j \in ws : j <= i)

\* the tag or path an item suggests: the tag shown after #, the folder
\* shown, or the path of the file whose basename is shown
SuggestedName(item) ==
    IF item.type = "tag" THEN StripHash(item.display)
    ELSE IF item.type = "path" THEN item.display
    ELSE (CHOOSE f \in SuggestFiles : f.basename = item.display).path

\* C30: selecting a tag, path or file item leaves the text before the
\* current token as it was, and the token put in its place parses to exactly
\* one term of type tag (tag item) or path (path or file item), whose value
\* is the suggested tag or path in lower case and whose negated flag tells
\* whether the typed token started with a minus.
C30_SelectionCompletesToken ==
    [][ (pc = "typing" /\ pc' = "selected"
         /\ suggestion'.type \in {"tag", "path", "file"})
        => LET before == TextBefore(query)
               typed == SubSeq(query, Len(before) + 1, Len(query))
               inserted == SubSeq(query', Len(before) + 1, Len(query'))
           IN  /\ startsWith(query', before)
               /\ parseQuery(inserted)
                    = << SearchTerm(IF suggestion'.type = "tag" THEN "tag" ELSE "path",
                                    toLowerCase(SuggestedName(suggestion')),
                                    startsWith(typed, <<"-">>)) >> ]_vars

=============================================================================
